---------------------------- MODULE Spec2Model ----------------------------
(***************************************************************************)
(* A model of the travel_tools pipeline: the scrape stage (step2_scrape),  *)
(* the review summarizer (step2_5_summarize) and the merge stage           *)
(* (step3_merge).  Each stage is a sequential program; its specification   *)
(* draws the stage's inputs in Init and runs the stage's loop.             *)
(***************************************************************************)
EXTENDS Integers, Sequences, FiniteSets, TLC

(***************************************************************************)
(* Bounds of the model.                                                    *)
(***************************************************************************)
MaxPackages == 2
MaxHead == 2
MaxPad == 12
MaxReviews == 2
MaxLen == 4
MaxHotels == 2
MaxRaw == 3

\* The largest max_reviews a call of scrape_reviews is given.
MaxRequested == 20

(***************************************************************************)
(* Generic helpers.                                                        *)
(***************************************************************************)
Max(a, b) == IF a >= b THEN a ELSE b
Min(a, b) == IF a <= b THEN a ELSE b

\* Python's s[:n] for n >= 0.
Take(s, n) == SubSeq(s, 1, Min(n, Len(s)))

\* Optional values: None is the empty tuple, Some(v) a one-element tuple.
None == <<>>
Some(v) == <<v>>

SeqsUpTo(S, n) == UNION {[1..k -> S] : k \in 0..n}

Repeat(x, n) == [i \in 1..n |-> x]

(***************************************************************************)
(* Hotel names.  Three names, two of which differ only in letter case.     *)
(* NameRank is Python's string order (code points: "B" < "F" < "f").       *)
(***************************************************************************)
Names == {"Bar", "Foo", "foo"}

NameRank(n) == CASE n = "Bar" -> 1 [] n = "Foo" -> 2 [] n = "foo" -> 3

\* str.lower()
Lower(n) == CASE n = "Bar" -> "bar" [] n = "Foo" -> "foo" [] n = "foo" -> "foo"

\* sorted(set_of_names)
RECURSIVE SortNames(_)
SortNames(S) ==
    IF S = {} THEN <<>>
    ELSE LET m == CHOOSE x \in S : \A y \in S : NameRank(x) <= NameRank(y)
         IN <<m>> \o SortNames(S \ {m})

(***************************************************************************)
(* types.py: Review and GoogleRating.                                      *)
(***************************************************************************)
\* Raw text contents a review node can render.
Texts == {"Great stay", "Bad food!", "ok", "", "  ok  "}

\* len(text)
TextLen(t) ==
    CASE t = "Great stay" -> 10 [] t = "Bad food!" -> 9 [] t = "ok" -> 2
      [] t = "" -> 0 [] t = "  ok  " -> 6

\* str_strip_whitespace=True on Review
StripText(t) == IF t = "  ok  " THEN "ok" ELSE t

\* Review(text=..., rating=..., date=..., reviewer_name=...): the validated
\* record, or None when pydantic rejects it (empty text after stripping,
\* rating outside 1..5).
MakeReview(text, rating, date, reviewer_name) ==
    IF TextLen(StripText(text)) >= 1 /\ rating >= 1 /\ rating <= 5
    THEN Some([text |-> StripText(text), rating |-> rating, date |-> date,
               reviewer_name |-> reviewer_name])
    ELSE None

PlaceholderZero(hotel_name) ==
    [hotel_name |-> hotel_name, rating |-> Some(0), review_count |-> Some(0),
     reviews |-> <<>>]

\* GoogleRating(hotel_name=...), all other fields at their defaults.
Placeholder(hotel_name) ==
    [hotel_name |-> hotel_name, rating |-> None, review_count |-> None,
     reviews |-> <<>>]

(***************************************************************************)
(* step2_scrape.py: extract_unique_hotels.  A package dictionary is        *)
(* modelled by the value of pkg.get("hotel_name"): None when the key is    *)
(* missing, Some("") for an empty name, Some(n) otherwise.                 *)
(***************************************************************************)
PkgNames == {None, Some("")} \cup {Some(n) : n \in Names}

extract_unique_hotels(packages) ==
    SortNames({p[1] : p \in {q \in {packages[i] : i \in 1..Len(packages)} :
                                  q # None /\ q[1] # ""}})

(***************************************************************************)
(* step2_scrape.py: deduplicate_reviews.                                   *)
(***************************************************************************)
ReviewKeyWithDate(review) ==
    <<review.text, review.rating, review.reviewer_name, review.date>>

ReviewKey(review) == <<review.text, review.rating, review.reviewer_name>>

RECURSIVE DedupLoop(_, _, _, _)
DedupLoop(reviews, i, seen, deduped) ==
    IF i > Len(reviews) THEN deduped
    ELSE LET key == ReviewKey(reviews[i])
         IN IF key \in seen
            THEN DedupLoop(reviews, i + 1, seen, deduped)
            ELSE DedupLoop(reviews, i + 1, seen \cup {key},
                           Append(deduped, reviews[i]))

deduplicate_reviews(reviews) == DedupLoop(reviews, 1, {}, <<>>)

(***************************************************************************)
(* step2_scrape.py: scrape_reviews.  A review node is what its four        *)
(* locators render: text (after the "More" expansion), the star label, the *)
(* date text (None: the locator fails) and the reviewer name.              *)
(***************************************************************************)
\* int(round(float(rating_text.split("/")[0].split()[0]))); None: it raises.
ParseStars(rating_text) ==
    CASE rating_text = "5 stars" -> Some(5)
      [] rating_text = "1/5" -> Some(1)
      [] rating_text = "0 stars" -> Some(0)
      [] rating_text = "" -> None

\* date_text.split(" on ")[0]; "Unknown" when the locator fails.
ParseDate(date_text) ==
    IF date_text = None THEN "Unknown"
    ELSE IF date_text[1] = "a week ago on Google" THEN "a week ago"
    ELSE date_text[1]

\* A rating without the default: 0 when the label does not parse, which
\* the validation of Review rejects.
RatingOrZero(parsed) == IF parsed = None THEN 0 ELSE parsed[1]

\* rating = int(round(float(numeric_part))) if numeric_part else 3, and
\* except Exception: rating = 3
RatingOrDefault(parsed) == IF parsed = None THEN 3 ELSE parsed[1]

\* One pass of the extraction loop body for one node: Some(review) when a
\* review is appended, None when the node is skipped.
ExtractNode(node) ==
    LET text == node.text
        rating == RatingOrDefault(ParseStars(node.stars))
        date == ParseDate(node.date)
    IN IF text = "" \/ TextLen(text) < 5 THEN None
       ELSE MakeReview(text, rating, date, node.name)

RECURSIVE ExtractLoop(_, _, _)
ExtractLoop(elems, idx, reviews) ==
    IF idx > Len(elems) THEN reviews
    ELSE ExtractLoop(elems, idx + 1, reviews \o ExtractNode(elems[idx]))

no_oversample(max_reviews) == max_reviews

target_count(max_reviews) == Max(max_reviews * 2, max_reviews + 10)

\* The list built by the extraction loop over review_elements[:target_count].
ExtractedReviews(page, max_reviews) ==
    ExtractLoop(Take(page.nodes, target_count(max_reviews)), 1, <<>>)

\* page.tab: "clicked" (a Reviews selector succeeded), "fallback" (one
\* succeeded after opening the first place result), "none" (no click
\* succeeded), "error" (an exception escaped before the extraction loop).
scrape_reviews(page, max_reviews) ==
    IF page.tab \in {"none", "error"} THEN <<>>
    ELSE Take(deduplicate_reviews(ExtractedReviews(page, max_reviews)),
              max_reviews)

(***************************************************************************)
(* step2_scrape.py: scrape_hotel.  page.load is "ok", "timeout" (goto or   *)
(* wait_for_selector raises PlaywrightTimeoutError) or "error" (any other  *)
(* exception inside the try block).                                        *)
(***************************************************************************)
\* float(rating_text.split()[0]) in tenths; None when absent or not a number.
ParseRating(rating_text) ==
    IF rating_text = None THEN None
    ELSE IF rating_text[1] = "4.5 stars" THEN Some(45)
    ELSE None

\* int of all digit characters of the label; None when absent or no digit.
ParseCount(reviews_text) ==
    IF reviews_text = None THEN None
    ELSE IF reviews_text[1] = "1,234 reviews" THEN Some(1234)
    ELSE None

RatingTexts == {None, Some("4.5 stars"), Some("Rated stars")}
CountTexts == {None, Some("1,234 reviews"), Some("No reviews")}

\* The result of a call: the value returned, or an exception raised.
Returned(v) == [raised |-> FALSE, value |-> v]

\* A guard under which the reviews are always scraped.
WantsReviewsAlways(max_reviews) == max_reviews >= 0

\* if max_reviews > 0
WantsReviews(max_reviews) == max_reviews > 0

\* The kinds of step scrape_reviews performs on the page: the clicks on
\* the Reviews tab (and on the first place result when they fail), the
\* scrolling, the reading of review nodes.
scrape_reviews_steps(page, max_reviews) ==
    {"click_reviews"}
    \cup (IF page.tab \in {"fallback", "none"} THEN {"click_place"} ELSE {})
    \cup (IF page.tab \in {"clicked", "fallback"} THEN {"scroll"} ELSE {})
    \cup (IF page.tab \in {"clicked", "fallback"}
              /\ Take(page.nodes, target_count(max_reviews)) # <<>>
          THEN {"read_node"} ELSE {})

\* The kinds of step scrape_hotel performs on the page.
scrape_hotel_steps(page, max_reviews) ==
    IF page.load # "ok" THEN {"goto"}
    ELSE {"goto", "read_rating", "read_count"}
         \cup (IF WantsReviews(max_reviews)
               THEN scrape_reviews_steps(page, max_reviews) ELSE {})

\* Both except clauses of scrape_hotel return GoogleRating(hotel_name=...).
scrape_hotel(hotel_name, page, max_reviews) ==
    IF page.load = "timeout" THEN Returned(Placeholder(hotel_name))
    ELSE IF page.load = "error" THEN Returned(Placeholder(hotel_name))
    ELSE Returned(
          [hotel_name |-> hotel_name,
           rating |-> ParseRating(page.rating_text),
           review_count |-> ParseCount(page.count_text),
           reviews |-> IF WantsReviews(max_reviews)
                       THEN scrape_reviews(page, max_reviews)
                       ELSE <<>>])

(***************************************************************************)
(* State.  sc_*: the scrape stage's main().                                *)
(***************************************************************************)
VARIABLES
    sc_packages,     \* the filtered packages, by their hotel_name
    sc_debug,        \* --debug
    sc_test_single,  \* --test-single-hotel
    sc_max_reviews,  \* --max-reviews
    sc_extractor,    \* "real": scrape_hotel; "fake": a test double that may raise
    sc_hotels,       \* hotels, the list the batch loop runs over
    sc_pc,           \* "loop", "saved" (save_json done) or "aborted" (click.Abort)
    sc_i,            \* position of the batch loop in sc_hotels
    sc_attempt,      \* tenacity's attempt number for the current hotel
    sc_ratings,      \* the accumulated ratings list
    sc_output,       \* google_ratings.json: None until written
    sc_browser,      \* "open", "closed" (browser.close()) or "stopped"
    sc_calls,        \* per hotel, the number of calls of the extractor
    sc_raises,       \* per hotel, the number of calls that raised
    sc_failed,       \* hotels whose error reached the batch loop's handler
    sc_errhit,       \* hotels one of whose attempts hit a non-timeout exception
    sc_page,         \* the page the latest extractor call saw
    sc_steps         \* the kinds of step the latest call performed on it

scrapeVars ==
    <<sc_packages, sc_debug, sc_test_single, sc_max_reviews, sc_extractor,
      sc_hotels, sc_pc, sc_i, sc_attempt, sc_ratings, sc_output, sc_browser,
      sc_calls, sc_raises, sc_failed, sc_errhit, sc_page, sc_steps>>

\* rv_*: one call of scrape_reviews.
VARIABLES
    rv_page,         \* what the page shows
    rv_max_reviews,  \* max_reviews
    rv_pc,           \* "call" before the call, "done" after it
    rv_reviews,      \* the list built by the extraction loop
    rv_result        \* the list returned

reviewVars == <<rv_page, rv_max_reviews, rv_pc, rv_reviews, rv_result>>

\* dd_*: deduplicate_reviews applied to a list, and to its own result.
VARIABLES
    dd_input,        \* the list L
    dd_pc,           \* "in", "once", "twice"
    dd_once,         \* deduplicate_reviews(L)
    dd_twice         \* deduplicate_reviews(deduplicate_reviews(L))

dedupVars == <<dd_input, dd_pc, dd_once, dd_twice>>

\* sm_*: the summarizer's process_hotel_ratings, called by its main().
VARIABLES
    sm_ratings_data, \* ratings_data, the list the loop runs over
    sm_prev,         \* ratings_with_summaries.json as the run found it
    sm_force,        \* --force-summarize
    sm_max_new,      \* max_new_summaries (None: not given)
    sm_cap,          \* max_reviews_per_hotel (None: not given)
    sm_pc,           \* "loop", "final" (the loop is left), "done"
    sm_i,            \* position of the loop in sm_ratings_data
    sm_attempt,      \* tenacity's attempt number for the current hotel
    sm_map,          \* summarized_ratings_map
    sm_file,         \* ratings_with_summaries.json
    sm_requests,     \* the hotels of the requests sent to the API, in order
    sm_blocked,      \* a request was answered by a content-safety block
    sm_stop,         \* why the loop was left early: "none", "block", "limit"
    sm_gaveup,       \* hotels given up after an ordinary failure
    sm_new,          \* hotels that got a new summary in this run
    sm_done          \* hotels whose loop iteration has ended

summVars ==
    <<sm_ratings_data, sm_prev, sm_force, sm_max_new, sm_cap, sm_pc, sm_i,
      sm_attempt, sm_map, sm_file, sm_requests, sm_blocked, sm_stop,
      sm_gaveup, sm_new, sm_done>>

\* mg_*: the merge stage's main() and its call of merge_data.
VARIABLES
    mg_packages,     \* packages_data, the filtered packages file
    mg_ratings,      \* ratings_data, the ratings file
    mg_pc,           \* "index", "group", "merge", "done", "aborted"
    mg_ratings_map,  \* ratings_map
    mg_order,        \* keys of hotels_packages in insertion order
    mg_groups,       \* hotels_packages
    mg_i,            \* position of the merge loop in mg_order
    mg_merged,       \* merged
    mg_output        \* final_data.json (None: not written)

mergeVars ==
    <<mg_packages, mg_ratings, mg_pc, mg_ratings_map, mg_order, mg_groups,
      mg_i, mg_merged, mg_output>>

\* fl_*: the filter stage's main() and its call of filter_packages.
VARIABLES
    fl_packages,     \* packages_data, the raw packages
    fl_budget,       \* budget, in cents
    fl_pc,           \* "loop", "done"
    fl_i,            \* position of the loop in fl_packages
    fl_filtered,     \* filtered
    fl_output        \* budget_<n>.json (None: not written)

filterVars ==
    <<fl_packages, fl_budget, fl_pc, fl_i, fl_filtered, fl_output>>

\* wb_*: the web stage's call of transform_to_web_format.
VARIABLES
    wb_merged,       \* merged_data
    wb_pc,           \* "loop", "done"
    wb_i,            \* position of the loop in wb_merged
    wb_hotels,       \* web_hotels
    wb_output        \* the dictionary returned (None: not yet)

webVars == <<wb_merged, wb_pc, wb_i, wb_hotels, wb_output>>

\* pn_*: scrape_reviews from its first click to the extraction loop.
VARIABLES
    pn_max_reviews,  \* max_reviews
    pn_pc,           \* "pass1", "fallback", "pass2", "gate", "scroll",
                     \* "extra", "extract" (the extraction loop is reached),
                     \* "returned"
    pn_sel,          \* position in review_tab_selectors of the next click
    pn_clicked,      \* reviews_tab_clicked
    pn_clicks,       \* the page.click calls made so far, with their outcome
    pn_fallbacks,    \* the number of times the fallback block was entered
    pn_scrolls,      \* iterations of the first scroll loop performed
    pn_read,         \* a div[data-review-id] locator has been queried
    pn_elements,     \* len(review_elements)
    pn_extra,        \* extra_scrolls
    pn_result        \* the list returned (None: not returned)

panelVars ==
    <<pn_max_reviews, pn_pc, pn_sel, pn_clicked, pn_clicks, pn_fallbacks,
      pn_scrolls, pn_read, pn_elements, pn_extra, pn_result>>

vars ==
    <<scrapeVars, reviewVars, dedupVars, summVars, mergeVars, filterVars,
      webVars, panelVars>>

\* What each stage leaves alone: the state of the other stages.
NotScrape ==
    <<reviewVars, dedupVars, summVars, mergeVars, filterVars,
      webVars, panelVars>>
NotReviews ==
    <<scrapeVars, dedupVars, summVars, mergeVars, filterVars,
      webVars, panelVars>>
NotDedup ==
    <<scrapeVars, reviewVars, summVars, mergeVars, filterVars,
      webVars, panelVars>>
NotSumm ==
    <<scrapeVars, reviewVars, dedupVars, mergeVars, filterVars,
      webVars, panelVars>>
NotMerge ==
    <<scrapeVars, reviewVars, dedupVars, summVars, filterVars,
      webVars, panelVars>>
NotFilter ==
    <<scrapeVars, reviewVars, dedupVars, summVars, mergeVars,
      webVars, panelVars>>
NotWeb ==
    <<scrapeVars, reviewVars, dedupVars, summVars, mergeVars, filterVars,
      panelVars>>
NotPanel ==
    <<scrapeVars, reviewVars, dedupVars, summVars, mergeVars, filterVars,
      webVars>>

(***************************************************************************)
(* step2_scrape.py: scrape_with_retry and the batch loop of main().        *)
(***************************************************************************)
\* stop_after_attempt(3)
MaxAttempts == 3

ShouldRetryOnceMore(attempt) == attempt < MaxAttempts + 1

\* tenacity: after a raising attempt, retry unless the stop condition holds.
ShouldRetry(attempt) == attempt < MaxAttempts

\* A review node with a well-formed review.
NodeAnn ==
    [text |-> "Great stay", stars |-> "5 stars",
     date |-> Some("a week ago on Google"), name |-> Some("Ann")]

NoPage ==
    [load |-> "none", rating_text |-> None, count_text |-> None,
     tab |-> "none", nodes |-> <<>>]

\* What one navigation can show.
ScrapePages ==
    [load : {"ok"}, rating_text : RatingTexts, count_text : CountTexts,
     tab : {"clicked", "none"}, nodes : {<<>>, <<NodeAnn>>}]
    \cup {[NoPage EXCEPT !.load = "timeout"], [NoPage EXCEPT !.load = "error"]}

\* The record the test double returns (tests/unit/test_scrape.py).
FakeRating(hotel_name) ==
    [hotel_name |-> hotel_name, rating |-> Some(40), review_count |-> Some(123),
     reviews |-> <<>>]

\* The outcomes of one call of the extractor by scrape_with_retry.
ExtractorOutcomes(hotel) ==
    IF sc_extractor = "fake"
    THEN {[raised |-> TRUE, value |-> Placeholder(hotel), page |-> NoPage,
           steps |-> {}],
          [raised |-> FALSE, value |-> FakeRating(hotel), page |-> NoPage,
           steps |-> {}]}
    ELSE {[raised |-> scrape_hotel(hotel, pg, sc_max_reviews).raised,
           value |-> scrape_hotel(hotel, pg, sc_max_reviews).value,
           page |-> pg,
           steps |-> scrape_hotel_steps(pg, sc_max_reviews)] :
             pg \in ScrapePages}

ScrapeInit ==
    /\ sc_packages \in SeqsUpTo(PkgNames, MaxPackages)
    /\ sc_debug \in BOOLEAN
    /\ sc_test_single \in BOOLEAN
    /\ sc_max_reviews \in {0, 1}
    /\ sc_extractor \in {"real", "fake"}
    /\ sc_hotels = IF sc_test_single
                   THEN Take(extract_unique_hotels(sc_packages), 1)
                   ELSE extract_unique_hotels(sc_packages)
    /\ sc_pc = "loop"
    /\ sc_i = 1
    /\ sc_attempt = 1
    /\ sc_ratings = <<>>
    /\ sc_output = None
    /\ sc_browser = "open"
    /\ sc_calls = [n \in Names |-> 0]
    /\ sc_raises = [n \in Names |-> 0]
    /\ sc_failed = {}
    /\ sc_errhit = {}
    /\ sc_page = NoPage
    /\ sc_steps = {}

ScInLoop == sc_pc = "loop" /\ sc_i <= Len(sc_hotels)

ScCounted(hotel, o) ==
    /\ sc_calls' = [sc_calls EXCEPT ![hotel] = @ + 1]
    /\ sc_raises' = [sc_raises EXCEPT ![hotel] = IF o.raised THEN @ + 1 ELSE @]
    /\ sc_errhit' = IF o.page.load = "error" THEN sc_errhit \cup {hotel}
                    ELSE sc_errhit
    /\ sc_page' = o.page
    /\ sc_steps' = o.steps

\* The call returns: ratings.append(rating.model_dump()), next hotel.
ScReturn ==
    /\ ScInLoop
    /\ \E o \in ExtractorOutcomes(sc_hotels[sc_i]) :
          /\ ~o.raised
          /\ ScCounted(sc_hotels[sc_i], o)
          /\ sc_ratings' = Append(sc_ratings, o.value)
    /\ sc_i' = sc_i + 1
    /\ sc_attempt' = 1
    /\ UNCHANGED NotScrape
    /\ UNCHANGED <<sc_packages, sc_debug, sc_test_single, sc_max_reviews,
                   sc_extractor, sc_hotels, sc_pc, sc_output, sc_browser,
                   sc_failed>>

\* The call raises and tenacity waits 2 seconds and calls again.
ScRetry ==
    /\ ScInLoop
    /\ ShouldRetry(sc_attempt)
    /\ \E o \in ExtractorOutcomes(sc_hotels[sc_i]) :
          /\ o.raised
          /\ ScCounted(sc_hotels[sc_i], o)
    /\ sc_attempt' = sc_attempt + 1
    /\ UNCHANGED NotScrape
    /\ UNCHANGED <<sc_packages, sc_debug, sc_test_single, sc_max_reviews,
                   sc_extractor, sc_hotels, sc_pc, sc_i, sc_ratings, sc_output,
                   sc_browser, sc_failed>>

\* An exit of the with block that leaves the browser as it is.
WithExitLeak(browser) == browser

\* The exit of the block "with sync_playwright() as p": Playwright is
\* stopped, which ends a browser that is still open.
WithExit(browser) == IF browser = "open" THEN "stopped" ELSE browser

\* The last attempt raises: the error reaches the batch loop's handler, which
\* appends a placeholder and, with --debug, takes a screenshot of the page.  A
\* screenshot that raises leaves the loop and the with block; main() aborts.
ScExhausted ==
    /\ ScInLoop
    /\ ~ShouldRetry(sc_attempt)
    /\ \E o \in ExtractorOutcomes(sc_hotels[sc_i]) :
          /\ o.raised
          /\ ScCounted(sc_hotels[sc_i], o)
    /\ sc_ratings' = Append(sc_ratings, Placeholder(sc_hotels[sc_i]))
    /\ sc_failed' = sc_failed \cup {sc_hotels[sc_i]}
    /\ sc_attempt' = 1
    /\ \E shot \in (IF sc_debug THEN {"ok", "raises"} ELSE {"none"}) :
          IF shot = "raises"
          THEN /\ sc_pc' = "aborted"
               /\ sc_browser' = WithExit(sc_browser)
               /\ sc_i' = sc_i
          ELSE /\ sc_pc' = sc_pc
               /\ sc_browser' = sc_browser
               /\ sc_i' = sc_i + 1
    /\ UNCHANGED NotScrape
    /\ UNCHANGED <<sc_packages, sc_debug, sc_test_single, sc_max_reviews,
                   sc_extractor, sc_hotels, sc_output>>

\* After the loop: browser.close() and save_json(ratings, output_path).
ScFinish ==
    /\ sc_pc = "loop"
    /\ sc_i > Len(sc_hotels)
    /\ sc_browser' = WithExit("closed")
    /\ sc_output' = Some(sc_ratings)
    /\ sc_pc' = "saved"
    /\ UNCHANGED NotScrape
    /\ UNCHANGED <<sc_packages, sc_debug, sc_test_single, sc_max_reviews,
                   sc_extractor, sc_hotels, sc_i, sc_attempt, sc_ratings,
                   sc_calls, sc_raises, sc_failed, sc_errhit, sc_page,
                   sc_steps>>

ScrapeNext == ScReturn \/ ScRetry \/ ScExhausted \/ ScFinish

ScrapeIdle ==
    /\ sc_packages = <<>>
    /\ sc_debug = FALSE
    /\ sc_test_single = FALSE
    /\ sc_max_reviews = 0
    /\ sc_extractor = "real"
    /\ sc_hotels = <<>>
    /\ sc_pc = "idle"
    /\ sc_i = 1
    /\ sc_attempt = 1
    /\ sc_ratings = <<>>
    /\ sc_output = None
    /\ sc_browser = "none"
    /\ sc_calls = [n \in Names |-> 0]
    /\ sc_raises = [n \in Names |-> 0]
    /\ sc_failed = {}
    /\ sc_errhit = {}
    /\ sc_page = NoPage
    /\ sc_steps = {}

(***************************************************************************)
(* One call of scrape_reviews on a page.  The review nodes of the page are *)
(* a few arbitrary nodes, a run of copies of one node as the re-rendering  *)
(* of a scrolled list produces, and at most one more node.                 *)
(***************************************************************************)
NodeAnnLater == [NodeAnn EXCEPT !.date = Some("2 weeks ago")]

NodeAnon ==
    [text |-> "Bad food!", stars |-> "", date |-> None, name |-> None]

NodeShort ==
    [text |-> "ok", stars |-> "1/5", date |-> Some("2 weeks ago"),
     name |-> Some("Bob")]

NodeZero ==
    [text |-> "Great stay", stars |-> "0 stars", date |-> Some("2 weeks ago"),
     name |-> Some("Bob")]

\* A short text that text_content() returns with the white space around it.
NodePadded ==
    [text |-> "  ok  ", stars |-> "5 stars", date |-> Some("2 weeks ago"),
     name |-> Some("Bob")]

NodeKinds ==
    {NodeAnn, NodeAnnLater, NodeAnon, NodeShort, NodeZero, NodePadded}

NodeLists ==
    {head \o Repeat(filler, k) \o tail :
        head \in SeqsUpTo(NodeKinds, MaxHead),
        filler \in {NodeAnn, NodeShort},
        k \in 0..MaxPad,
        tail \in SeqsUpTo({NodeAnnLater, NodeAnon, NodePadded}, 1)}

ReviewsInit ==
    /\ rv_page \in [load : {"ok"}, rating_text : {None}, count_text : {None},
                    tab : {"clicked", "fallback", "none", "error"},
                    nodes : NodeLists]
    /\ rv_max_reviews \in 1..MaxReviews
    /\ rv_pc = "call"
    /\ rv_reviews = <<>>
    /\ rv_result = <<>>

ReviewsIdle ==
    /\ rv_page = NoPage
    /\ rv_max_reviews = 0
    /\ rv_pc = "idle"
    /\ rv_reviews = <<>>
    /\ rv_result = <<>>

RvScrape ==
    /\ rv_pc = "call"
    /\ rv_reviews' = IF rv_page.tab \in {"none", "error"} THEN <<>>
                     ELSE ExtractedReviews(rv_page, rv_max_reviews)
    /\ rv_result' = scrape_reviews(rv_page, rv_max_reviews)
    /\ rv_pc' = "done"
    /\ UNCHANGED <<rv_page, rv_max_reviews>>
    /\ UNCHANGED NotReviews

ReviewsNext == RvScrape

(***************************************************************************)
(* deduplicate_reviews on an arbitrary list of reviews, applied twice.     *)
(***************************************************************************)
ReviewAnn ==
    [text |-> "Great stay", rating |-> 5, date |-> "a week ago",
     reviewer_name |-> Some("Ann")]

ReviewPool ==
    {ReviewAnn,
     [ReviewAnn EXCEPT !.date = "2 weeks ago"],
     [ReviewAnn EXCEPT !.reviewer_name = None],
     [ReviewAnn EXCEPT !.rating = 1],
     [ReviewAnn EXCEPT !.text = "Bad food!"]}

DedupInit ==
    /\ dd_input \in SeqsUpTo(ReviewPool, MaxLen)
    /\ dd_pc = "in"
    /\ dd_once = <<>>
    /\ dd_twice = <<>>

DedupIdle ==
    /\ dd_input = <<>>
    /\ dd_pc = "idle"
    /\ dd_once = <<>>
    /\ dd_twice = <<>>

DdApply ==
    /\ dd_pc = "in"
    /\ dd_once' = deduplicate_reviews(dd_input)
    /\ dd_pc' = "once"
    /\ UNCHANGED <<dd_input, dd_twice>>
    /\ UNCHANGED NotDedup

DdAgain ==
    /\ dd_pc = "once"
    /\ dd_twice' = deduplicate_reviews(dd_once)
    /\ dd_pc' = "twice"
    /\ UNCHANGED <<dd_input, dd_once>>
    /\ UNCHANGED NotDedup

DedupNext == DdApply \/ DdAgain

(***************************************************************************)
(* step2_5_summarize.py.  An entry of the output file is a dumped          *)
(* GoogleRating with, possibly, a review_summary (None: no summary).  A    *)
(* summary is reduced to its text, its count and the hotel its points are  *)
(* about.                                                                  *)
(***************************************************************************)
\* rating.model_dump()
Dump(rating) ==
    [hotel_name |-> rating.hotel_name, rating |-> rating.rating,
     review_count |-> rating.review_count, reviews |-> rating.reviews,
     review_summary |-> None]

\* rating_dict["review_summary"] = summary.model_dump()
WithSummary(rating, summary) ==
    [Dump(rating) EXCEPT !.review_summary = Some(summary)]

\* The summary parsed from a reply of the API.
ApiSummary(hotel_name, reviews) ==
    [overall_summary |-> "generated", about |-> hotel_name,
     review_count_analyzed |-> Len(reviews)]

\* The summary summarize_reviews_with_gemini returns for an empty list.
EmptySummary(hotel_name) ==
    [overall_summary |-> "No reviews available for analysis.",
     about |-> hotel_name, review_count_analyzed |-> 0]

CachedSummary(hotel_name) ==
    [overall_summary |-> "cached", about |-> hotel_name,
     review_count_analyzed |-> 1]

\* The ratings file: per hotel its scraped rating and its reviews.
InputRating(hotel_name, reviews) ==
    [hotel_name |-> hotel_name,
     rating |-> CASE hotel_name = "Bar" -> Some(45)
                  [] hotel_name = "Foo" -> Some(40)
                  [] hotel_name = "foo" -> None,
     review_count |-> IF hotel_name = "foo" THEN None ELSE Some(1234),
     reviews |-> reviews]

SummInputs ==
    {rd \in SeqsUpTo({InputRating(n, rv) : n \in Names,
                                           rv \in {<<>>, <<ReviewAnn>>}},
                     MaxHotels) :
        \A i, j \in 1..Len(rd) : i # j => rd[i].hotel_name # rd[j].hotel_name}

\* The output file of an earlier run: empty, or one entry.
PrevFiles ==
    {<<>>}
    \cup {<<Dump(InputRating(n, <<ReviewAnn>>))>> : n \in Names}
    \cup {<<WithSummary(InputRating(n, <<ReviewAnn>>), CachedSummary(n))>> :
             n \in Names}

\* load_existing_output: the entries keyed by lower-cased hotel name.
load_existing_output(file) ==
    [k \in {Lower(file[i].hotel_name) : i \in 1..Len(file)} |->
        file[CHOOSE i \in 1..Len(file) :
                /\ Lower(file[i].hotel_name) = k
                /\ \A j \in (i + 1)..Len(file) : Lower(file[j].hotel_name) # k]]

\* load_existing_summaries: the summaries keyed by lower-cased hotel name.
load_existing_summaries(file) ==
    LET withSummary == {i \in 1..Len(file) : file[i].review_summary # None}
    IN [k \in {Lower(file[i].hotel_name) : i \in withSummary} |->
          file[CHOOSE i \in withSummary :
                  /\ Lower(file[i].hotel_name) = k
                  /\ \A j \in withSummary :
                        j > i => Lower(file[j].hotel_name) # k].review_summary[1]]

\* existing_summaries as main() passes it: {} under --force-summarize.
ExistingSummaries ==
    IF sm_force THEN <<>> ELSE load_existing_summaries(sm_prev)

\* summarized_ratings_map[key] = entry
MapPut(map, key, entry) ==
    [k \in DOMAIN map \cup {key} |-> IF k = key THEN entry ELSE map[k]]

RECURSIVE SaveLoop(_, _, _, _)
SaveLoop(ratings_data, summarized_map, i, ordered_entries) ==
    IF i > Len(ratings_data) THEN ordered_entries
    ELSE LET hotel_key == Lower(ratings_data[i].hotel_name)
         IN SaveLoop(ratings_data, summarized_map, i + 1,
                     IF hotel_key \in DOMAIN summarized_map
                     THEN Append(ordered_entries, summarized_map[hotel_key])
                     ELSE ordered_entries)

\* save_progress: the content written to the output file.
save_progress(ratings_data, summarized_map) ==
    SaveLoop(ratings_data, summarized_map, 1, <<>>)

SummInit ==
    /\ sm_ratings_data \in SummInputs
    /\ sm_prev \in PrevFiles
    /\ sm_force \in BOOLEAN
    /\ sm_max_new \in {None, Some(0), Some(1), Some(2)}
    /\ sm_cap \in {None, Some(0), Some(1)}
    /\ sm_pc = "loop"
    /\ sm_i = 1
    /\ sm_attempt = 1
    /\ sm_map = load_existing_output(sm_prev)
    /\ sm_file = sm_prev
    /\ sm_requests = <<>>
    /\ sm_blocked = FALSE
    /\ sm_stop = "none"
    /\ sm_gaveup = {}
    /\ sm_new = {}
    /\ sm_done = {}

SummIdle ==
    /\ sm_ratings_data = <<>>
    /\ sm_prev = <<>>
    /\ sm_force = FALSE
    /\ sm_max_new = None
    /\ sm_cap = None
    /\ sm_pc = "idle"
    /\ sm_i = 1
    /\ sm_attempt = 1
    /\ sm_map = <<>>
    /\ sm_file = <<>>
    /\ sm_requests = <<>>
    /\ sm_blocked = FALSE
    /\ sm_stop = "none"
    /\ sm_gaveup = {}
    /\ sm_new = {}
    /\ sm_done = {}

SmInLoop == sm_pc = "loop" /\ sm_i <= Len(sm_ratings_data)

SmRating == sm_ratings_data[sm_i]

SmKey == Lower(SmRating.hotel_name)

\* skip_existing_summaries and existing_summaries and a cached entry
SmHasCached ==
    /\ ~sm_force
    /\ DOMAIN ExistingSummaries # {}
    /\ SmKey \in DOMAIN ExistingSummaries

\* A cap that leaves no review to send.
SmNoReviewsToUse == <<>>

\* reviews_to_use
SmReviewsToUse ==
    IF sm_cap = None THEN SmRating.reviews
    ELSE Take(SmRating.reviews, sm_cap[1])

\* The hotel reaches the call of summarize_reviews_with_gemini.
SmCalls == SmInLoop /\ ~SmHasCached /\ SmRating.reviews # <<>>

\* Record an entry for the current hotel and persist the progress.
SmPut(entry) ==
    /\ sm_map' = MapPut(sm_map, SmKey, entry)
    /\ sm_file' = save_progress(sm_ratings_data, MapPut(sm_map, SmKey, entry))
    /\ sm_done' = sm_done \cup {SmRating.hotel_name}
    /\ sm_attempt' = 1

SmConfig == <<sm_ratings_data, sm_prev, sm_force, sm_cap>>

\* A cached summary exists: reuse it, save, continue.
SmSkipCached ==
    /\ SmInLoop
    /\ SmHasCached
    /\ SmPut(WithSummary(SmRating, ExistingSummaries[SmKey]))
    /\ sm_i' = sm_i + 1
    /\ UNCHANGED <<SmConfig, sm_max_new, sm_pc, sm_requests, sm_blocked,
                   sm_stop, sm_gaveup, sm_new>>
    /\ UNCHANGED NotSumm

\* No reviews: keep the rating without a summary, save, continue.
SmNoReviews ==
    /\ SmInLoop
    /\ ~SmHasCached
    /\ SmRating.reviews = <<>>
    /\ SmPut(Dump(SmRating))
    /\ sm_i' = sm_i + 1
    /\ UNCHANGED <<SmConfig, sm_max_new, sm_pc, sm_requests, sm_blocked,
                   sm_stop, sm_gaveup, sm_new>>
    /\ UNCHANGED NotSumm

\* summarize_reviews_with_gemini returns a summary: at once for an empty
\* reviews_to_use, else from a request the API answers well.  The entry is
\* saved; the max_new_summaries budget is decremented and may end the loop.
SmSummarized ==
    /\ SmCalls
    /\ IF SmReviewsToUse = <<>>
       THEN /\ SmPut(WithSummary(SmRating, EmptySummary(SmRating.hotel_name)))
            /\ sm_requests' = sm_requests
       ELSE /\ SmPut(WithSummary(SmRating,
                        ApiSummary(SmRating.hotel_name, SmReviewsToUse)))
            /\ sm_requests' = Append(sm_requests, SmRating.hotel_name)
    /\ sm_new' = sm_new \cup {SmRating.hotel_name}
    /\ IF sm_max_new = None
       THEN /\ sm_max_new' = sm_max_new
            /\ sm_pc' = sm_pc
            /\ sm_stop' = sm_stop
            /\ sm_i' = sm_i + 1
       ELSE /\ sm_max_new' = Some(sm_max_new[1] - 1)
            /\ IF sm_max_new[1] - 1 <= 0
               THEN /\ sm_pc' = "final"
                    /\ sm_stop' = "limit"
                    /\ sm_i' = sm_i
               ELSE /\ sm_pc' = sm_pc
                    /\ sm_stop' = sm_stop
                    /\ sm_i' = sm_i + 1
    /\ UNCHANGED <<SmConfig, sm_blocked, sm_gaveup>>
    /\ UNCHANGED NotSumm

\* stop_after_attempt(3) of the decorator of summarize_reviews_with_gemini
SummMaxAttempts == 3

\* tenacity retries after any exception, SafetyBlockError included.
SmShouldRetry(attempt) == attempt < SummMaxAttempts

\* A request fails ("fail": network error, unparseable reply; "block":
\* SafetyBlockError) and tenacity waits and calls again.
SmRetry ==
    /\ SmCalls
    /\ SmReviewsToUse # <<>>
    /\ \E outcome \in {"fail", "block"} :
          /\ SmShouldRetry(sm_attempt)
          /\ sm_blocked' = (sm_blocked \/ outcome = "block")
    /\ sm_requests' = Append(sm_requests, SmRating.hotel_name)
    /\ sm_attempt' = sm_attempt + 1
    /\ UNCHANGED <<SmConfig, sm_max_new, sm_pc, sm_i, sm_map, sm_file,
                   sm_stop, sm_gaveup, sm_new, sm_done>>
    /\ UNCHANGED NotSumm

\* The last attempt fails with an ordinary error, which is re-raised: the
\* generic handler keeps the rating without a summary, saves, continues.
SmGiveUp ==
    /\ SmCalls
    /\ SmReviewsToUse # <<>>
    /\ ~SmShouldRetry(sm_attempt)
    /\ sm_requests' = Append(sm_requests, SmRating.hotel_name)
    /\ SmPut(Dump(SmRating))
    /\ sm_gaveup' = sm_gaveup \cup {SmRating.hotel_name}
    /\ sm_i' = sm_i + 1
    /\ UNCHANGED <<SmConfig, sm_max_new, sm_pc, sm_blocked, sm_stop, sm_new>>
    /\ UNCHANGED NotSumm

\* The last attempt is answered by a safety block, which is re-raised: the
\* SafetyBlockError handler keeps the rating without a summary, saves, breaks.
SmSafetyStop ==
    /\ SmCalls
    /\ SmReviewsToUse # <<>>
    /\ ~SmShouldRetry(sm_attempt)
    /\ sm_requests' = Append(sm_requests, SmRating.hotel_name)
    /\ sm_blocked' = TRUE
    /\ SmPut(Dump(SmRating))
    /\ sm_stop' = "block"
    /\ sm_pc' = "final"
    /\ UNCHANGED <<SmConfig, sm_max_new, sm_i, sm_gaveup, sm_new>>
    /\ UNCHANGED NotSumm

\* After the loop: the final save_progress.
SmFinal ==
    /\ \/ sm_pc = "final"
       \/ sm_pc = "loop" /\ sm_i > Len(sm_ratings_data)
    /\ sm_file' = save_progress(sm_ratings_data, sm_map)
    /\ sm_pc' = "done"
    /\ UNCHANGED <<SmConfig, sm_max_new, sm_i, sm_attempt, sm_map,
                   sm_requests, sm_blocked, sm_stop, sm_gaveup, sm_new,
                   sm_done>>
    /\ UNCHANGED NotSumm

SummNext ==
    \/ SmSkipCached
    \/ SmNoReviews
    \/ SmSummarized
    \/ SmRetry
    \/ SmGiveUp
    \/ SmSafetyStop
    \/ SmFinal


(***************************************************************************)
(* step3_merge.py: merge_data and the part of main() around it.  A package *)
(* dictionary is reduced to the keys merge_data reads (hotel_name and      *)
(* price, None when the key is missing), to whether its dates parse, and   *)
(* to its two boolean flags.  A rating dictionary is reduced to            *)
(* hotel_name (None when the key is missing), rating, review_count and     *)
(* review_summary.                                                         *)
(***************************************************************************)
Pkg(hotel_name, price, dates, drinks24h, snacks24h) ==
    [hotel_name |-> hotel_name, price |-> price, dates |-> dates,
     drinks24h |-> drinks24h, snacks24h |-> snacks24h]

\* Dates are timestamps in hours counted from Feb 15, 00:00.  A week's
\* stay, and dates in which the return precedes the departure.
Stay == [departure |-> 0, return |-> 168]
Backwards == [departure |-> 168, return |-> 0]

\* The package dictionaries of the filtered file.
PkgPool ==
    {Pkg(Some("Foo"), Some(4200), Some(Stay), TRUE, FALSE),
     Pkg(Some("Foo"), Some(8500), Some(Stay), FALSE, TRUE),
     Pkg(Some("Bar"), Some(300), Some(Stay), FALSE, FALSE),
     Pkg(Some("Bar"), Some(300), Some(Backwards), FALSE, FALSE),
     Pkg(Some("Foo"), Some(50), None, FALSE, FALSE),
     Pkg(Some("Bar"), None, Some(Stay), FALSE, FALSE),
     Pkg(None, Some(100), Some(Stay), FALSE, FALSE)}

RatingEntry(hotel_name, rating, review_count, review_summary) ==
    [hotel_name |-> hotel_name, rating |-> rating,
     review_count |-> review_count, review_summary |-> review_summary]

BlankSummary(hotel_name) ==
    [overall_summary |-> "", about |-> hotel_name,
     review_count_analyzed |-> 1]

\* The rating dictionaries of the ratings file.
RatingPool ==
    {RatingEntry(Some("Foo"), Some(45), Some(1234), None),
     RatingEntry(Some("Foo"), Some(40), Some(12), Some(CachedSummary("Foo"))),
     RatingEntry(Some("Bar"), None, None, Some(BlankSummary("Bar"))),
     RatingEntry(Some("foo"), Some(30), Some(7), None),
     RatingEntry(None, Some(45), Some(1234), None)}

\* HotelPackage(**pkg_data) is accepted.
ValidPackage(pkg) ==
    pkg.hotel_name # None /\ pkg.price # None /\ pkg.dates # None

\* ReviewSummary(**summary_payload), None when the payload is absent or
\* rejected (overall_summary has min_length 1).
ParseSummary(summary_payload) ==
    IF summary_payload # None /\ summary_payload[1].overall_summary # ""
    THEN summary_payload ELSE None

\* A lookup that ignores letter case.
RatingInfoAnyCase(ratings_map, hotel_name) ==
    IF \E n \in DOMAIN ratings_map : Lower(n) = Lower(hotel_name)
    THEN ratings_map[CHOOSE n \in DOMAIN ratings_map :
                        Lower(n) = Lower(hotel_name)]
    ELSE RatingEntry(Some(hotel_name), None, None, None)

\* ratings_map.get(hotel_name, {})
RatingInfo(ratings_map, hotel_name) ==
    IF hotel_name \in DOMAIN ratings_map THEN ratings_map[hotel_name]
    ELSE RatingEntry(Some(hotel_name), None, None, None)

\* Every package dictionary kept, accepted or not.
KeepPackages(hotel_pkgs) == hotel_pkgs

\* packages: the package dictionaries HotelPackage accepts, in order.
ValidPackages(hotel_pkgs) ==
    LET F[i \in 0..Len(hotel_pkgs)] ==
            IF i = 0 THEN <<>>
            ELSE IF ValidPackage(hotel_pkgs[i])
                 THEN Append(F[i - 1], hotel_pkgs[i]) ELSE F[i - 1]
    IN  F[Len(hotel_pkgs)]

SumOf(s) ==
    LET F[i \in 0..Len(s)] == IF i = 0 THEN 0 ELSE F[i - 1] + s[i]
    IN  F[Len(s)]

MinOf(s) == CHOOSE x \in {s[i] : i \in 1..Len(s)} :
                \A i \in 1..Len(s) : x <= s[i]

MaxOf(s) == CHOOSE x \in {s[i] : i \in 1..Len(s)} :
                \A i \in 1..Len(s) : x >= s[i]

\* A price range that takes the list for a sorted one.
PriceRangeOfEnds(prices) ==
    [min |-> prices[1], max |-> prices[Len(prices)],
     avg |-> [sum |-> SumOf(prices), count |-> Len(prices)]]

\* PriceRange(min=min(prices), max=max(prices), avg=mean(prices)); the mean
\* is kept as the fraction sum / count.
PriceRange(prices) ==
    [min |-> MinOf(prices), max |-> MaxOf(prices),
     avg |-> [sum |-> SumOf(prices), count |-> Len(prices)]]

\* Python's all() on a list of booleans.
all_flags(flags) == \A i \in 1..Len(flags) : flags[i]

\* Python's any() on a list of booleans.
any(flags) == \E i \in 1..Len(flags) : flags[i]

\* The HotelData built from a hotel's package dictionaries, all of which
\* have a price, and of which at least one is a valid package.
HotelData(hotel_name, hotel_pkgs, ratings_map) ==
    LET rating_info == RatingInfo(ratings_map, hotel_name)
        prices == [i \in 1..Len(hotel_pkgs) |-> hotel_pkgs[i].price[1]]
        packages == ValidPackages(hotel_pkgs)
    IN  [name |-> hotel_name,
         google_rating |-> rating_info.rating,
         review_count |-> rating_info.review_count,
         drinks24h |-> any([i \in 1..Len(packages) |-> packages[i].drinks24h]),
         snacks24h |-> any([i \in 1..Len(packages) |-> packages[i].snacks24h]),
         price_range |-> PriceRange(prices),
         packages |-> packages,
         review_summary |-> ParseSummary(rating_info.review_summary)]

MergeInit ==
    /\ mg_packages \in SeqsUpTo(PkgPool, MaxPackages)
    /\ mg_ratings \in SeqsUpTo(RatingPool, MaxHotels)
    /\ mg_pc = "index"
    /\ mg_ratings_map = << >>
    /\ mg_order = <<>>
    /\ mg_groups = << >>
    /\ mg_i = 1
    /\ mg_merged = <<>>
    /\ mg_output = None

MergeIdle ==
    /\ mg_packages = <<>>
    /\ mg_ratings = <<>>
    /\ mg_pc = "idle"
    /\ mg_ratings_map = << >>
    /\ mg_order = <<>>
    /\ mg_groups = << >>
    /\ mg_i = 1
    /\ mg_merged = <<>>
    /\ mg_output = None

\* {r["hotel_name"]: r for r in ratings_data}: the last entry of a name wins.
RatingsMap(ratings_data) ==
    LET names == {ratings_data[i].hotel_name[1] : i \in 1..Len(ratings_data)}
        last(n) == CHOOSE i \in 1..Len(ratings_data) :
                       /\ ratings_data[i].hotel_name = Some(n)
                       /\ \A j \in (i + 1)..Len(ratings_data) :
                              ratings_data[j].hotel_name # Some(n)
    IN  [n \in names |-> ratings_data[last(n)]]

\* The keys of hotels_packages, in the order of their first package.
GroupOrder(packages_data) ==
    LET F[i \in 0..Len(packages_data)] ==
            IF i = 0 THEN <<>>
            ELSE LET n == packages_data[i].hotel_name[1]
                 IN  IF \E k \in 1..Len(F[i - 1]) : F[i - 1][k] = n
                     THEN F[i - 1] ELSE Append(F[i - 1], n)
    IN  F[Len(packages_data)]

\* hotels_packages[name]: the packages of that name, in input order.
GroupOf(packages_data, name) ==
    LET F[i \in 0..Len(packages_data)] ==
            IF i = 0 THEN <<>>
            ELSE IF packages_data[i].hotel_name = Some(name)
                 THEN Append(F[i - 1], packages_data[i]) ELSE F[i - 1]
    IN  F[Len(packages_data)]

\* The ratings lookup.  r["hotel_name"] raises KeyError for an entry
\* without the key; main() turns any exception into click.Abort.
MgIndex ==
    /\ mg_pc = "index"
    /\ IF \E i \in 1..Len(mg_ratings) : mg_ratings[i].hotel_name = None
       THEN /\ mg_pc' = "aborted"
            /\ UNCHANGED mg_ratings_map
       ELSE /\ mg_pc' = "group"
            /\ mg_ratings_map' = RatingsMap(mg_ratings)
    /\ UNCHANGED NotMerge
    /\ UNCHANGED <<mg_packages, mg_ratings, mg_order, mg_groups, mg_i,
                   mg_merged, mg_output>>

\* Grouping by pkg["hotel_name"], a KeyError for a package without the key.
MgGroup ==
    /\ mg_pc = "group"
    /\ IF \E i \in 1..Len(mg_packages) : mg_packages[i].hotel_name = None
       THEN /\ mg_pc' = "aborted"
            /\ UNCHANGED <<mg_order, mg_groups>>
       ELSE /\ mg_pc' = "merge"
            /\ mg_order' = GroupOrder(mg_packages)
            /\ mg_groups' =
                   [n \in {mg_packages[i].hotel_name[1] :
                              i \in 1..Len(mg_packages)} |->
                       GroupOf(mg_packages, n)]
    /\ UNCHANGED NotMerge
    /\ UNCHANGED <<mg_packages, mg_ratings, mg_ratings_map, mg_i, mg_merged,
                   mg_output>>

\* One iteration of the merge loop.  pkg["price"] raises KeyError for a
\* package without the key; a hotel with no valid package is skipped.
MgHotel ==
    /\ mg_pc = "merge"
    /\ mg_i <= Len(mg_order)
    /\ LET hotel_name == mg_order[mg_i]
           hotel_pkgs == mg_groups[hotel_name]
       IN  IF \E i \in 1..Len(hotel_pkgs) : hotel_pkgs[i].price = None
           THEN /\ mg_pc' = "aborted"
                /\ UNCHANGED <<mg_i, mg_merged>>
           ELSE /\ mg_pc' = "merge"
                /\ mg_i' = mg_i + 1
                /\ mg_merged' =
                       IF ValidPackages(hotel_pkgs) = <<>>
                       THEN mg_merged
                       ELSE Append(mg_merged,
                                   HotelData(hotel_name, hotel_pkgs,
                                             mg_ratings_map))
    /\ UNCHANGED NotMerge
    /\ UNCHANGED <<mg_packages, mg_ratings, mg_ratings_map, mg_order,
                   mg_groups, mg_output>>

\* merge_data returns and main() saves the merged list.
MgSave ==
    /\ mg_pc = "merge"
    /\ mg_i > Len(mg_order)
    /\ mg_output' = Some(mg_merged)
    /\ mg_pc' = "done"
    /\ UNCHANGED NotMerge
    /\ UNCHANGED <<mg_packages, mg_ratings, mg_ratings_map, mg_order,
                   mg_groups, mg_i, mg_merged>>

MergeNext == MgIndex \/ MgGroup \/ MgHotel \/ MgSave

(***************************************************************************)
(* step1_filter.py: transform_transat_package and filter_packages.  A raw  *)
(* package is reduced to hotel.name (None: missing), totalPriceForGroup    *)
(* (missing, a number of cents, or text that is not a number), its two     *)
(* date strings (None: missing or not a date) and hotel.drinks24h.         *)
(***************************************************************************)
NoPrice == [given |-> FALSE, numeric |-> FALSE, cents |-> 0]
Cents(n) == [given |-> TRUE, numeric |-> TRUE, cents |-> n]
TextPrice == [given |-> TRUE, numeric |-> FALSE, cents |-> 0]

Raw(name, price, departureDate, returnDate, drinks24h) ==
    [name |-> name, totalPriceForGroup |-> price,
     departureDate |-> departureDate, returnDate |-> returnDate,
     drinks24h |-> drinks24h]

\* The budgets of a run, in cents.
Budgets == {420000, 850000}

\* The raw packages of packages.json.
RawPool ==
    {Raw(Some("Foo"), Cents(420000), Some(0), Some(168), 1),
     Raw(Some("Foo"), Cents(420001), Some(0), Some(168), 0),
     Raw(Some("Bar"), Cents(300000), Some(168), Some(0), 0),
     Raw(Some("Bar"), Cents(100000), None, Some(168), 0),
     Raw(Some("Foo"), TextPrice, Some(0), Some(168), 0),
     Raw(None, NoPrice, Some(0), Some(168), 0)}

\* transform_transat_package: the standard dictionary, or an exception
\* raised by float(price).
transform_transat_package(transat_pkg) ==
    LET price == transat_pkg.totalPriceForGroup
    IN  IF price.given /\ ~price.numeric
        THEN [raised |-> TRUE, value |-> None]
        ELSE [raised |-> FALSE,
              value |->
                Some([hotel_name |-> IF transat_pkg.name = None
                                     THEN "Unknown Hotel"
                                     ELSE transat_pkg.name[1],
                      price |-> IF price.given THEN price.cents ELSE 0,
                      departure |-> transat_pkg.departureDate,
                      return |-> transat_pkg.returnDate,
                      drinks24h |-> transat_pkg.drinks24h = 1])]

\* PackageDates(**dates): both fields must parse as datetime.
PackageDates(departure, return) ==
    IF departure # None /\ return # None
    THEN Some([departure |-> departure[1], return |-> return[1]])
    ELSE None

\* HotelPackage(**transformed).model_dump(by_alias=True), None when
\* validation fails.
HotelPackage(transformed) ==
    IF PackageDates(transformed.departure, transformed.return) = None
    THEN None
    ELSE Some(Pkg(Some(transformed.hotel_name), Some(transformed.price),
                  PackageDates(transformed.departure, transformed.return),
                  transformed.drinks24h, FALSE))

\* A comparison that leaves out the ceiling itself.
UnderBudget(price, budget) == price < budget

\* pkg.price <= budget
WithinBudget(price, budget) == price <= budget

FilterInit ==
    /\ fl_packages \in SeqsUpTo(RawPool, MaxRaw)
    /\ fl_budget \in Budgets
    /\ fl_pc = "loop"
    /\ fl_i = 1
    /\ fl_filtered = <<>>
    /\ fl_output = None

FilterIdle ==
    /\ fl_packages = <<>>
    /\ fl_budget = 0
    /\ fl_pc = "idle"
    /\ fl_i = 1
    /\ fl_filtered = <<>>
    /\ fl_output = None

\* One iteration of the loop of filter_packages: an exception of the
\* transformation or of the validation skips the package.
FlPackage ==
    /\ fl_pc = "loop"
    /\ fl_i <= Len(fl_packages)
    /\ LET t == transform_transat_package(fl_packages[fl_i])
           pkg == IF t.raised THEN None ELSE HotelPackage(t.value[1])
       IN  fl_filtered' =
               IF pkg # None /\ WithinBudget(pkg[1].price[1], fl_budget)
               THEN Append(fl_filtered, pkg[1])
               ELSE fl_filtered
    /\ fl_i' = fl_i + 1
    /\ UNCHANGED NotFilter
    /\ UNCHANGED <<fl_packages, fl_budget, fl_pc, fl_output>>

\* filter_packages returns and main() saves the list.
FlSave ==
    /\ fl_pc = "loop"
    /\ fl_i > Len(fl_packages)
    /\ fl_output' = Some(fl_filtered)
    /\ fl_pc' = "done"
    /\ UNCHANGED NotFilter
    /\ UNCHANGED <<fl_packages, fl_budget, fl_i, fl_filtered>>

FilterNext == FlPackage \/ FlSave

(***************************************************************************)
(* step4_generate_web.py: transform_to_web_format.  A date of a merged     *)
(* package is an ISO-8601 string without offset ("iso"), one with a        *)
(* trailing Z ("isoZ"), a datetime object ("datetime") or a string that is *)
(* no date ("text"); ts is its time in hours counted from Feb 15, 00:00.   *)
(***************************************************************************)
DateValue(form, ts) == [form |-> form, ts |-> ts]

\* dep_date.replace("Z", "+00:00")
ReplaceZ(date) ==
    IF date.form = "isoZ" THEN DateValue("isoOffset", date.ts) ELSE date

\* datetime.fromisoformat: a naive datetime, one with an offset, or None
\* when it raises ValueError.
fromisoformat(date) ==
    CASE date.form = "iso" -> Some([aware |-> FALSE, ts |-> date.ts])
      [] date.form = "isoOffset" -> Some([aware |-> TRUE, ts |-> date.ts])
      [] OTHER -> None

\* The datetime the loop works with: a string is parsed, a datetime object
\* is taken as it is.
ToDatetime(date) ==
    IF date.form = "datetime" THEN Some([aware |-> FALSE, ts |-> date.ts])
    ELSE fromisoformat(ReplaceZ(date))

\* A count that includes the day of departure.
DurationInclusive(dep_dt, ret_dt) == ((ret_dt.ts - dep_dt.ts) \div 24) + 1

\* (ret_dt - dep_dt).days
DurationDays(dep_dt, ret_dt) == (ret_dt.ts - dep_dt.ts) \div 24

\* The WebPackage of the package at position src of a hotel, None when the
\* try block raises (a date that does not parse, or the difference of a
\* datetime with an offset and one without).
web_package(pkg, src) ==
    LET dep_dt == ToDatetime(pkg.departure)
        ret_dt == ToDatetime(pkg.return)
    IN  IF dep_dt = None \/ ret_dt = None THEN None
        ELSE IF dep_dt[1].aware # ret_dt[1].aware THEN None
        ELSE Some([departure |-> dep_dt[1].ts \div 24,
                   return_date |-> ret_dt[1].ts \div 24,
                   duration_days |-> DurationDays(dep_dt[1], ret_dt[1]),
                   price |-> pkg.price,
                   src |-> src])

\* A loop that gives up the whole hotel when one package raises.
web_packages_all_or_nothing(packages) ==
    IF \E j \in 1..Len(packages) : web_package(packages[j], j) = None
    THEN <<>>
    ELSE [j \in 1..Len(packages) |-> web_package(packages[j], j)[1]]

\* web_packages of a hotel.
web_packages(packages) ==
    LET F[j \in 0..Len(packages)] ==
            IF j = 0 THEN <<>>
            ELSE F[j - 1] \o web_package(packages[j], j)
    IN  F[Len(packages)]

DigitChar(d) ==
    CASE d = 0 -> "0" [] d = 1 -> "1" [] d = 2 -> "2" [] d = 3 -> "3"
      [] d = 4 -> "4" [] d = 5 -> "5" [] d = 6 -> "6" [] d = 7 -> "7"
      [] d = 8 -> "8" [] d = 9 -> "9"

\* The decimal digits of a natural number.
RECURSIVE Digits(_)
Digits(n) ==
    IF n < 10 THEN <<DigitChar(n)>>
    ELSE Append(Digits(n \div 10), DigitChar(n % 10))

\* The format specification 03d: zeros in front up to a width of 3.
Format03d(n) ==
    LET ds == Digits(n)
    IN  IF Len(ds) >= 3 THEN ds ELSE Repeat("0", 3 - Len(ds)) \o ds

\* An id without the padding.
hotel_id_unpadded(idx) == <<"hotel_">> \o Digits(idx)

\* f"hotel_{idx:03d}", as the sequence of its parts.
hotel_id(idx) == <<"hotel_">> \o Format03d(idx)

MergedPackage(departure, return, price) ==
    [departure |-> departure, return |-> return, price |-> price]

\* A hotel of final_data.json; review_summary is None for null.
MergedHotel(name, review_summary, packages) ==
    [name |-> name, review_summary |-> review_summary, packages |-> packages]

\* The hotels of final_data.json.
MergedHotels ==
    {MergedHotel("Foo", Some(CachedSummary("Foo")),
        <<MergedPackage(DateValue("iso", 0), DateValue("iso", 168), 4200),
          MergedPackage(DateValue("isoZ", 1176), DateValue("isoZ", 1344),
                        8500)>>),
     MergedHotel("Bar", None,
        <<MergedPackage(DateValue("datetime", 0), DateValue("datetime", 168),
                        300),
          MergedPackage(DateValue("isoZ", 0), DateValue("iso", 168), 300)>>),
     MergedHotel("Bar", Some(CachedSummary("Bar")),
        <<MergedPackage(DateValue("text", 0), DateValue("iso", 168), 300),
          MergedPackage(DateValue("iso", 20), DateValue("iso", 180), 300)>>),
     MergedHotel("foo", None,
        <<MergedPackage(DateValue("iso", 168), DateValue("iso", 0), 50)>>)}

\* merged_data: a few hotels followed by copies of one hotel.
MergedLists ==
    {head \o Repeat(filler, k) :
        head \in SeqsUpTo(MergedHotels, MaxHead),
        filler \in {MergedHotel("Foo", None,
                      <<MergedPackage(DateValue("iso", 0),
                                      DateValue("iso", 168), 4200)>>)},
        k \in 0..MaxPad}

WebInit ==
    /\ wb_merged \in MergedLists
    /\ wb_pc = "loop"
    /\ wb_i = 1
    /\ wb_hotels = <<>>
    /\ wb_output = None

WebIdle ==
    /\ wb_merged = <<>>
    /\ wb_pc = "idle"
    /\ wb_i = 1
    /\ wb_hotels = <<>>
    /\ wb_output = None

\* WebHotel.review_summary when the constructor is not given one:
\* Field(None, ...).
WebHotelSummaryDefault == None

\* One iteration of the loop over enumerate(merged_data); idx is wb_i - 1.
WbHotel ==
    /\ wb_pc = "loop"
    /\ wb_i <= Len(wb_merged)
    /\ LET hotel == wb_merged[wb_i]
           pkgs == web_packages(hotel.packages)
       IN  wb_hotels' =
               Append(wb_hotels,
                      [id |-> hotel_id(wb_i - 1), name |-> hotel.name,
                       package_count |-> Len(pkgs), packages |-> pkgs,
                       review_summary |-> WebHotelSummaryDefault])
    /\ wb_i' = wb_i + 1
    /\ UNCHANGED NotWeb
    /\ UNCHANGED <<wb_merged, wb_pc, wb_output>>

\* The metadata and the WebOutput returned.
WbReturn ==
    /\ wb_pc = "loop"
    /\ wb_i > Len(wb_merged)
    /\ wb_output' = Some([metadata |-> [total_hotels |-> Len(wb_hotels)],
                          hotels |-> wb_hotels])
    /\ wb_pc' = "done"
    /\ UNCHANGED NotWeb
    /\ UNCHANGED <<wb_merged, wb_i, wb_hotels>>

WebNext == WbHotel \/ WbReturn

(***************************************************************************)
(* step2_scrape.py: scrape_reviews, from the click on a Reviews entry      *)
(* point to the start of the extraction loop.  The page decides whether a  *)
(* click succeeds, how many review nodes a locator finds and whether a     *)
(* call raises.                                                            *)
(***************************************************************************)
review_tab_selectors ==
    <<"button[aria-label*=Reviews]", "button:has-text(Reviews)",
      "div[role=tab]:has-text(Reviews)",
      "button[jsaction*=pane.reviewChart.moreReviews]",
      "a:has-text(Reviews)">>

\* A fallback block entered whatever the first pass gave.
NeedsFallbackAlways(reviews_tab_clicked) == TRUE

\* if not reviews_tab_clicked: (the fallback block)
NeedsFallback(reviews_tab_clicked) == ~reviews_tab_clicked

\* A first scroll loop of a fixed length.
scroll_iterations_flat(max_reviews) == 12

\* scroll_iterations = max((max_reviews // 4) + 8, 12)
scroll_iterations(max_reviews) == Max((max_reviews \div 4) + 8, 12)

\* min_target = max(max_reviews * 3, max_reviews + 15)
min_target(max_reviews) == Max(max_reviews * 3, max_reviews + 15)

\* while len(review_elements) < min_target and extra_scrolls < 20
ExtraScrollWanted(elements, max_reviews, extra_scrolls) ==
    elements < min_target(max_reviews) /\ extra_scrolls < 20

\* The numbers of review nodes a locator can find on the page.
NodeCounts(max_reviews) ==
    {0, max_reviews, min_target(max_reviews) - 1, min_target(max_reviews)}

PanelInit ==
    /\ pn_max_reviews \in 1..MaxRequested
    /\ pn_pc = "pass1"
    /\ pn_sel = 1
    /\ pn_clicked = FALSE
    /\ pn_clicks = <<>>
    /\ pn_fallbacks = 0
    /\ pn_scrolls = 0
    /\ pn_read = FALSE
    /\ pn_elements = 0
    /\ pn_extra = 0
    /\ pn_result = None

PanelIdle ==
    /\ pn_max_reviews = 0
    /\ pn_pc = "idle"
    /\ pn_sel = 1
    /\ pn_clicked = FALSE
    /\ pn_clicks = <<>>
    /\ pn_fallbacks = 0
    /\ pn_scrolls = 0
    /\ pn_read = FALSE
    /\ pn_elements = 0
    /\ pn_extra = 0
    /\ pn_result = None

\* Where the function goes when the first loop over the selectors is left.
AfterFirstPass(reviews_tab_clicked) ==
    IF NeedsFallback(reviews_tab_clicked) THEN "fallback" ELSE "gate"

\* One iteration of a loop over review_tab_selectors: page.click(sel)
\* succeeds (break) or raises (next selector).
PnClick ==
    /\ pn_pc \in {"pass1", "pass2"}
    /\ pn_sel <= Len(review_tab_selectors)
    /\ \E ok \in BOOLEAN :
          /\ pn_clicks' =
                 Append(pn_clicks,
                        [pass |-> IF pn_pc = "pass1" THEN 1 ELSE 2,
                         sel |-> review_tab_selectors[pn_sel], ok |-> ok])
          /\ pn_clicked' = (pn_clicked \/ ok)
          /\ IF ok \/ pn_sel = Len(review_tab_selectors)
             THEN /\ pn_pc' = IF pn_pc = "pass1"
                              THEN AfterFirstPass(pn_clicked \/ ok)
                              ELSE "gate"
                  /\ pn_sel' = 1
             ELSE /\ pn_pc' = pn_pc
                  /\ pn_sel' = pn_sel + 1
    /\ UNCHANGED <<pn_max_reviews, pn_fallbacks, pn_scrolls, pn_read,
                   pn_elements, pn_extra, pn_result>>
    /\ UNCHANGED NotPanel

\* The fallback block up to its loop: the first place result is opened, or
\* get_attribute or click raises and the block is left.
PnFallback ==
    /\ pn_pc = "fallback"
    /\ pn_fallbacks' = pn_fallbacks + 1
    /\ \E opened \in BOOLEAN :
          pn_pc' = IF opened THEN "pass2" ELSE "gate"
    /\ UNCHANGED <<pn_max_reviews, pn_sel, pn_clicked, pn_clicks, pn_scrolls,
                   pn_read, pn_elements, pn_extra, pn_result>>
    /\ UNCHANGED NotPanel

\* if not reviews_tab_clicked: return []
PnGate ==
    /\ pn_pc = "gate"
    /\ IF ~pn_clicked
       THEN pn_pc' = "returned" /\ pn_result' = Some(<<>>)
       ELSE pn_pc' = "scroll" /\ pn_result' = pn_result
    /\ UNCHANGED <<pn_max_reviews, pn_sel, pn_clicked, pn_clicks, pn_fallbacks,
                   pn_scrolls, pn_read, pn_elements, pn_extra>>
    /\ UNCHANGED NotPanel

\* One iteration of the first scroll loop: the wheel is turned, the settle
\* delay passes and the loaded nodes are counted.
PnScroll ==
    /\ pn_pc = "scroll"
    /\ pn_scrolls < scroll_iterations(pn_max_reviews)
    /\ pn_scrolls' = pn_scrolls + 1
    /\ pn_read' = TRUE
    /\ UNCHANGED <<pn_max_reviews, pn_pc, pn_sel, pn_clicked, pn_clicks,
                   pn_fallbacks, pn_elements, pn_extra, pn_result>>
    /\ UNCHANGED NotPanel

\* An exception leaves the scroll phase outside its inner try blocks
\* (page.mouse.wheel, page.wait_for_timeout, the locator after the loop):
\* the handler at the end of the function returns [].
PnScrollRaises ==
    /\ pn_pc = "scroll"
    /\ pn_pc' = "returned"
    /\ pn_result' = Some(<<>>)
    /\ UNCHANGED <<pn_max_reviews, pn_sel, pn_clicked, pn_clicks, pn_fallbacks,
                   pn_scrolls, pn_read, pn_elements, pn_extra>>
    /\ UNCHANGED NotPanel

\* The first loop is over: review_elements is read.
PnElements ==
    /\ pn_pc = "scroll"
    /\ pn_scrolls = scroll_iterations(pn_max_reviews)
    /\ pn_elements' \in NodeCounts(pn_max_reviews)
    /\ pn_read' = TRUE
    /\ pn_pc' = "extra"
    /\ UNCHANGED <<pn_max_reviews, pn_sel, pn_clicked, pn_clicks, pn_fallbacks,
                   pn_scrolls, pn_extra, pn_result>>
    /\ UNCHANGED NotPanel

\* One iteration of the while loop: a further scroll and a new reading of
\* review_elements, or an exception and the break of its handler.
PnExtraScroll ==
    /\ pn_pc = "extra"
    /\ ExtraScrollWanted(pn_elements, pn_max_reviews, pn_extra)
    /\ \/ /\ pn_elements' \in NodeCounts(pn_max_reviews)
          /\ pn_extra' = pn_extra + 1
          /\ pn_pc' = pn_pc
       \/ /\ pn_pc' = "extract"
          /\ UNCHANGED <<pn_elements, pn_extra>>
    /\ UNCHANGED <<pn_max_reviews, pn_sel, pn_clicked, pn_clicks, pn_fallbacks,
                   pn_scrolls, pn_read, pn_result>>
    /\ UNCHANGED NotPanel

\* The while condition is false: the extraction loop starts.
PnExtract ==
    /\ pn_pc = "extra"
    /\ ~ExtraScrollWanted(pn_elements, pn_max_reviews, pn_extra)
    /\ pn_pc' = "extract"
    /\ UNCHANGED <<pn_max_reviews, pn_sel, pn_clicked, pn_clicks, pn_fallbacks,
                   pn_scrolls, pn_read, pn_elements, pn_extra, pn_result>>
    /\ UNCHANGED NotPanel

PanelNext ==
    \/ PnClick
    \/ PnFallback
    \/ PnGate
    \/ PnScroll
    \/ PnScrollRaises
    \/ PnElements
    \/ PnExtraScroll
    \/ PnExtract

(***************************************************************************)
(* Specifications: one per stage, the other stages idle.                   *)
(***************************************************************************)
InitScrape ==
    /\ ScrapeInit
    /\ ReviewsIdle /\ DedupIdle /\ SummIdle
    /\ MergeIdle /\ FilterIdle /\ WebIdle
    /\ PanelIdle

SpecScrape == InitScrape /\ [][ScrapeNext]_vars

InitReviews ==
    /\ ReviewsInit
    /\ ScrapeIdle /\ DedupIdle /\ SummIdle
    /\ MergeIdle /\ FilterIdle /\ WebIdle
    /\ PanelIdle

SpecReviews == InitReviews /\ [][ReviewsNext]_vars

InitDedup ==
    /\ DedupInit
    /\ ScrapeIdle /\ ReviewsIdle /\ SummIdle
    /\ MergeIdle /\ FilterIdle /\ WebIdle
    /\ PanelIdle

SpecDedup == InitDedup /\ [][DedupNext]_vars

InitSumm ==
    /\ SummInit
    /\ ScrapeIdle /\ ReviewsIdle /\ DedupIdle
    /\ MergeIdle /\ FilterIdle /\ WebIdle
    /\ PanelIdle

SpecSumm == InitSumm /\ [][SummNext]_vars

InitMerge ==
    /\ MergeInit
    /\ ScrapeIdle /\ ReviewsIdle /\ DedupIdle
    /\ SummIdle /\ FilterIdle /\ WebIdle
    /\ PanelIdle

SpecMerge == InitMerge /\ [][MergeNext]_vars

InitFilter ==
    /\ FilterInit
    /\ ScrapeIdle /\ ReviewsIdle /\ DedupIdle
    /\ SummIdle /\ MergeIdle /\ WebIdle
    /\ PanelIdle

SpecFilter == InitFilter /\ [][FilterNext]_vars

InitWeb ==
    /\ WebInit
    /\ ScrapeIdle /\ ReviewsIdle /\ DedupIdle
    /\ SummIdle /\ MergeIdle /\ FilterIdle
    /\ PanelIdle

SpecWeb == InitWeb /\ [][WebNext]_vars

InitPanel ==
    /\ PanelInit
    /\ ScrapeIdle /\ ReviewsIdle /\ DedupIdle
    /\ SummIdle /\ MergeIdle /\ FilterIdle
    /\ WebIdle

SpecPanel == InitPanel /\ [][PanelNext]_vars

\* Every call on the page returns or times out, and the function goes on to
\* its next statement.
SpecPanelLive == SpecPanel /\ WF_vars(PanelNext)

(***************************************************************************)
(* Properties of the scrape stage.                                         *)
(***************************************************************************)
ScDone(hotel) == \E i \in 1..Len(sc_ratings) : sc_ratings[i].hotel_name = hotel

ScRecord(hotel) ==
    sc_ratings[CHOOSE i \in 1..Len(sc_ratings) : sc_ratings[i].hotel_name = hotel]

NullRecord(hotel) ==
    [hotel_name |-> hotel, rating |-> <<>>, review_count |-> <<>>,
     reviews |-> <<>>]

\* C1: whatever the outcomes of the hotels and with --debug on or off, once
\* the batch loop is left the accumulated ratings list holds exactly one
\* record per hotel of the list, in order (the sorted distinct non-empty names
\* of the packages), with a null-field placeholder for each failed hotel.
C1_BatchContinues ==
    sc_pc # "loop" =>
        /\ [i \in 1..Len(sc_ratings) |-> sc_ratings[i].hotel_name] = sc_hotels
        /\ \A i \in 1..Len(sc_ratings) :
              sc_ratings[i].hotel_name \in sc_failed =>
                  sc_ratings[i] = NullRecord(sc_ratings[i].hotel_name)
        /\ \A i, j \in 1..Len(sc_ratings) :
              i < j => NameRank(sc_ratings[i].hotel_name)
                         < NameRank(sc_ratings[j].hotel_name)
        /\ ~sc_test_single =>
              {sc_ratings[i].hotel_name : i \in 1..Len(sc_ratings)}
                = {n \in Names : \E k \in 1..Len(sc_packages) :
                                    sc_packages[k] = <<n>>}

\* C2: the extractor is called at most 3 times per hotel; when its first k
\* calls (k = 1 or 2) raise and the next returns, the hotel's record is that
\* result after exactly k + 1 calls and no failure is recorded; when 3 calls
\* raise, the error reaches the caller.
C2_RetryBounded ==
    \A h \in Names :
        /\ sc_calls[h] <= 3
        /\ (ScDone(h) /\ sc_raises[h] \in {1, 2}) =>
              /\ sc_calls[h] = sc_raises[h] + 1
              /\ h \notin sc_failed
              /\ ScRecord(h) = FakeRating(h)
        /\ sc_raises[h] = 3 <=> h \in sc_failed
        /\ h \in sc_failed => sc_calls[h] = 3

C2_Witness ==
    \E h \in Names :
        /\ ScDone(h)
        /\ sc_raises[h] = 2
        /\ sc_calls[h] = 3
        /\ h \notin sc_failed

\* C3: with the real scrape_hotel, a hotel one of whose attempts hit an
\* exception other than a page-load timeout is attempted again.
C3_TransientFailureRetried ==
    \A h \in Names :
        (sc_extractor = "real" /\ ScDone(h) /\ h \in sc_errhit) =>
            sc_calls[h] >= 2

ScLast == sc_ratings[Len(sc_ratings)]

ScRealReturned ==
    sc_extractor = "real" /\ sc_page.load # "none" /\ Len(sc_ratings) >= 1

\* C4 (as stated): scrape_hotel never raises and returns a record with the
\* hotel's name; a page without a rating indicator, and a page-load timeout,
\* give rating = null, review_count = null and reviews = [].
C4_NullSafetyAsStated ==
    ScRealReturned =>
        /\ sc_raises = [n \in Names |-> 0]
        /\ ScLast.hotel_name = sc_hotels[sc_i - 1]
        /\ (sc_page.load = "timeout" \/ sc_page.rating_text = <<>>) =>
              ScLast = NullRecord(sc_hotels[sc_i - 1])

\* C4 (amended): scrape_hotel never raises and returns a record with the
\* hotel's name and a reviews list; a page-load timeout gives the null
\* record; a page without a rating indicator gives rating = null, and
\* review_count = null when it shows no review-count indicator either, and
\* reviews = [] when no review is extracted from it.
C4_NullSafety ==
    /\ sc_extractor = "real" => sc_raises = [n \in Names |-> 0]
    /\ ScRealReturned =>
        /\ ScLast.hotel_name = sc_hotels[sc_i - 1]
        /\ DOMAIN ScLast = {"hotel_name", "rating", "review_count", "reviews"}
        /\ DOMAIN ScLast.reviews = 1..Len(ScLast.reviews)
        /\ sc_page.load = "timeout" => ScLast = NullRecord(sc_hotels[sc_i - 1])
        /\ (sc_page.load = "ok" /\ sc_page.rating_text = <<>>) =>
              /\ ScLast.rating = <<>>
              /\ sc_page.count_text = <<>> => ScLast.review_count = <<>>
              /\ (sc_max_reviews = 0 \/ sc_page.tab = "none"
                    \/ sc_page.nodes = <<>>) => ScLast.reviews = <<>>

C4_Witness ==
    /\ ScRealReturned
    /\ sc_page.load = "ok"
    /\ sc_page.rating_text = <<>>
    /\ sc_page.count_text = <<>>
    /\ sc_max_reviews = 1
    /\ ScLast = NullRecord(sc_hotels[sc_i - 1])


(***************************************************************************)
(* Properties of scrape_reviews and deduplicate_reviews.                   *)
(***************************************************************************)
SameTriple(a, b) ==
    /\ a.text = b.text
    /\ a.rating = b.rating
    /\ a.reviewer_name = b.reviewer_name

\* The positions of L that hold the first occurrence of their triple.
FirstSeenIdx(L) ==
    {i \in 1..Len(L) : \A j \in 1..(i - 1) : ~SameTriple(L[j], L[i])}

\* The elements of L at the positions S, in increasing order of position.
RECURSIVE SubseqAt(_, _)
SubseqAt(L, S) ==
    IF S = {} THEN <<>>
    ELSE LET m == CHOOSE x \in S : \A y \in S : x <= y
         IN <<L[m]>> \o SubseqAt(L, S \ {m})

FirstSeen(L) == SubseqAt(L, FirstSeenIdx(L))

RvConsidered ==
    LET m == rv_max_reviews
        tc == IF 2 * m >= m + 10 THEN 2 * m ELSE m + 10
    IN 1..(IF Len(rv_page.nodes) <= tc THEN Len(rv_page.nodes) ELSE tc)

\* C5: the list returned by scrape_reviews is the first max_reviews elements
\* of the first-seen deduplication of the reviews extracted from the first
\* max(2*max_reviews, max_reviews+10) review nodes; it has at most
\* max_reviews elements and no two with the same (text, rating,
\* reviewer_name).
C5_TruncatedDedup ==
    rv_pc = "done" =>
        /\ rv_page.tab \in {"clicked", "fallback"} =>
              rv_reviews =
                 SubseqAt([i \in RvConsidered |-> ExtractNode(rv_page.nodes[i])[1]],
                          {i \in RvConsidered :
                              ExtractNode(rv_page.nodes[i]) # <<>>})
        /\ rv_result =
              SubSeq(FirstSeen(rv_reviews), 1,
                     IF Len(FirstSeen(rv_reviews)) <= rv_max_reviews
                     THEN Len(FirstSeen(rv_reviews)) ELSE rv_max_reviews)
        /\ Len(rv_result) <= rv_max_reviews
        /\ \A i, j \in 1..Len(rv_result) :
              i # j => ~SameTriple(rv_result[i], rv_result[j])

C5_Witness ==
    /\ rv_pc = "done"
    /\ Len(rv_page.nodes) > Cardinality(RvConsidered)
    /\ Len(rv_reviews) > Len(FirstSeen(rv_reviews))
    /\ Len(FirstSeen(rv_reviews)) > rv_max_reviews
    /\ Len(rv_result) = rv_max_reviews

\* C6: deduplicate_reviews(L) holds exactly the first occurrence of each
\* (text, rating, reviewer_name) triple of L, in order of first occurrence
\* (reviews differing only in date are duplicates), and applying it to its
\* own result changes nothing.
C6_DedupFirstSeen ==
    /\ dd_pc \in {"once", "twice"} => dd_once = FirstSeen(dd_input)
    /\ dd_pc = "twice" => dd_twice = dd_once

C6_Witness ==
    /\ dd_pc = "twice"
    /\ Len(dd_once) >= 2
    /\ \E i, j \in 1..Len(dd_input) :
          /\ i < j
          /\ SameTriple(dd_input[i], dd_input[j])
          /\ dd_input[i].date # dd_input[j].date
    /\ dd_twice = dd_once


(***************************************************************************)
(* Properties of the summarizer.                                           *)
(***************************************************************************)
\* C7: once a request has been answered by a content-safety block, no
\* further request is sent in the run, for that hotel or a later one.
C7_NoRequestAfterBlock == [][sm_blocked => sm_requests' = sm_requests]_vars

SmEntries(hotel) ==
    {sm_file[k] : k \in {j \in 1..Len(sm_file) : sm_file[j].hotel_name = hotel}}

SmInput(hotel) ==
    sm_ratings_data[CHOOSE i \in 1..Len(sm_ratings_data) :
                       sm_ratings_data[i].hotel_name = hotel]

\* C8: when a safety block stops the run, the persisted file holds every
\* hotel processed so far: those summarized earlier in the run with their
\* summary, the blocked hotel with its rating data and no summary.
C8_PartialOutputPersisted ==
    sm_stop = "block" =>
        /\ \A h \in sm_done : SmEntries(h) # {}
        /\ \A h \in sm_new :
              \E e \in SmEntries(h) :
                  e.review_summary # <<>> /\ e.review_summary[1].about = h
        /\ \E e \in SmEntries(sm_ratings_data[sm_i].hotel_name) :
              /\ e.rating = sm_ratings_data[sm_i].rating
              /\ e.review_count = sm_ratings_data[sm_i].review_count
              /\ e.reviews = sm_ratings_data[sm_i].reviews
              /\ e.review_summary = <<>>

\* C9: an ordinary failure is attempted at most 3 times per hotel; the hotel
\* given up after the third failure is kept in the output with its rating
\* data and no summary, and the loop goes on to the next hotel.
C9_GiveUpOneHotel ==
    /\ \A h \in Names :
          Cardinality({k \in 1..Len(sm_requests) : sm_requests[k] = h}) <= 3
    /\ \A h \in sm_gaveup :
          /\ \E e \in SmEntries(h) :
                /\ e.rating = SmInput(h).rating
                /\ e.review_count = SmInput(h).review_count
                /\ e.reviews = SmInput(h).reviews
                /\ e.review_summary = <<>>
          /\ \E i \in 1..(sm_i - 1) : sm_ratings_data[i].hotel_name = h

(***************************************************************************)
(* Properties of the merge stage.                                          *)
(***************************************************************************)
\* A package dictionary with everything HotelPackage needs.
WellFormed(pkg) == ValidPackage(pkg)

\* C10: the merge never aborts because of a malformed package or rating
\* entry, and once it is done every hotel that has a well-formed package is
\* in the output.
C10_MalformedRecordSkipped ==
    /\ mg_pc # "aborted"
    /\ mg_pc = "done" =>
          \A i \in 1..Len(mg_packages) :
              WellFormed(mg_packages[i]) =>
                  \E k \in 1..Len(mg_output[1]) :
                      mg_output[1][k].name = mg_packages[i].hotel_name[1]

\* The hotel names of the package dictionaries.
MgNames == {mg_packages[i].hotel_name[1] :
               i \in {j \in 1..Len(mg_packages) :
                         mg_packages[j].hotel_name # <<>>}}

\* The positions of the package dictionaries of a hotel name.
MgOf(name) == {i \in 1..Len(mg_packages) : mg_packages[i].hotel_name = <<name>>}

\* The positions of a hotel's package dictionaries that pass validation.
MgValidOf(name) ==
    {i \in MgOf(name) : mg_packages[i].price # <<>> /\ mg_packages[i].dates # <<>>}

\* The positions of the output's entries for a hotel name.
MgOut(name) == {k \in 1..Len(mg_output[1]) : mg_output[1][k].name = name}

\* C11: in the output of merge_data a hotel name all of whose packages fail
\* validation has no entry, a hotel name with at least one valid package has
\* exactly one entry, and no entry has an empty package list.
C11_DroppedHotel ==
    mg_pc = "done" =>
        /\ \A n \in MgNames :
              Cardinality(MgOut(n)) = IF MgValidOf(n) = {} THEN 0 ELSE 1
        /\ \A k \in 1..Len(mg_output[1]) :
              /\ mg_output[1][k].name \in MgNames
              /\ mg_output[1][k].packages # <<>>

C11_Witness ==
    /\ mg_pc = "done"
    /\ \E n \in MgNames : MgValidOf(n) = {} /\ MgOut(n) = {}
    /\ \E n \in MgNames : MgValidOf(n) # {} /\ Cardinality(MgOut(n)) = 1

\* The sum of the prices of a hotel's package dictionaries.
MgPriceSum(name) ==
    LET G[i \in 0..Len(mg_packages)] ==
            IF i = 0 THEN 0
            ELSE IF i \in MgOf(name) THEN G[i - 1] + mg_packages[i].price[1]
                 ELSE G[i - 1]
    IN  G[Len(mg_packages)]

\* C12: the price_range of a merged hotel is the minimum, the maximum and
\* the arithmetic mean of the prices of the packages grouped under that
\* exact hotel name.
C12_PriceRange ==
    mg_pc = "done" =>
        \A k \in 1..Len(mg_output[1]) :
            LET h == mg_output[1][k]
                price(i) == mg_packages[i].price[1]
            IN  /\ \E i \in MgOf(h.name) : h.price_range.min = price(i)
                /\ \A i \in MgOf(h.name) : h.price_range.min <= price(i)
                /\ \E i \in MgOf(h.name) : h.price_range.max = price(i)
                /\ \A i \in MgOf(h.name) : h.price_range.max >= price(i)
                /\ h.price_range.avg.count > 0
                /\ h.price_range.avg.sum * Cardinality(MgOf(h.name)) =
                       MgPriceSum(h.name) * h.price_range.avg.count

\* Two packages of one hotel priced 8500 and 4200: min 4200, max 8500 and
\* avg 6350.
C12_Witness ==
    /\ mg_pc = "done"
    /\ Len(mg_packages) = 2
    /\ mg_packages[1].price = <<8500>>
    /\ mg_packages[2].price = <<4200>>
    /\ mg_packages[1].hotel_name = mg_packages[2].hotel_name
    /\ Len(mg_output[1]) = 1
    /\ mg_output[1][1].price_range.min = 4200
    /\ mg_output[1][1].price_range.max = 8500
    /\ mg_output[1][1].price_range.avg.sum =
           6350 * mg_output[1][1].price_range.avg.count

\* C13: drinks24h of a merged hotel is true exactly when one of the hotel's
\* valid packages has drinks24h true, and likewise snacks24h.
C13_BooleanUnion ==
    mg_pc = "done" =>
        \A k \in 1..Len(mg_output[1]) :
            LET h == mg_output[1][k]
            IN  /\ h.drinks24h <=>
                      \E i \in MgValidOf(h.name) : mg_packages[i].drinks24h
                /\ h.snacks24h <=>
                      \E i \in MgValidOf(h.name) : mg_packages[i].snacks24h

C13_Witness ==
    /\ mg_pc = "done"
    /\ \E k \in 1..Len(mg_output[1]) :
          LET h == mg_output[1][k]
          IN  /\ h.drinks24h
              /\ Cardinality(MgValidOf(h.name)) = 2
              /\ \E i \in MgValidOf(h.name) : mg_packages[i].drinks24h
              /\ \E i \in MgValidOf(h.name) : ~mg_packages[i].drinks24h

\* The positions of the rating dictionaries with exactly this hotel name.
MgRatingsOf(name) ==
    {i \in 1..Len(mg_ratings) : mg_ratings[i].hotel_name = <<name>>}

\* C20: a merged hotel carries the rating fields of a rating whose hotel
\* name equals the package hotel name exactly; without such a rating the
\* hotel is output with google_rating, review_count and review_summary null,
\* and the merge raises no error unless a record lacks hotel_name or price.
C20_ExactNameJoin ==
    /\ mg_pc = "done" =>
          \A k \in 1..Len(mg_output[1]) :
              LET h == mg_output[1][k]
              IN  IF MgRatingsOf(h.name) = {}
                  THEN /\ h.google_rating = <<>>
                       /\ h.review_count = <<>>
                       /\ h.review_summary = <<>>
                  ELSE \E i \in MgRatingsOf(h.name) :
                          /\ h.google_rating = mg_ratings[i].rating
                          /\ h.review_count = mg_ratings[i].review_count
                          /\ h.review_summary \in
                                 {<<>>, mg_ratings[i].review_summary}
    /\ mg_pc = "aborted" =>
          \/ \E i \in 1..Len(mg_ratings) : mg_ratings[i].hotel_name = <<>>
          \/ \E i \in 1..Len(mg_packages) :
                mg_packages[i].hotel_name = <<>> \/ mg_packages[i].price = <<>>

C20_Witness ==
    /\ mg_pc = "done"
    /\ MgRatingsOf("Foo") = {}
    /\ MgRatingsOf("foo") # {}
    /\ \E k \in 1..Len(mg_output[1]) :
          /\ mg_output[1][k].name = "Foo"
          /\ mg_output[1][k].google_rating = <<>>
          /\ mg_output[1][k].review_count = <<>>
    /\ \E k \in 1..Len(mg_output[1]) :
          /\ MgRatingsOf(mg_output[1][k].name) # {}

(***************************************************************************)
(* Properties of the filter stage.                                         *)
(***************************************************************************)
\* A raw package whose transformation validates: a price that is a number
\* or missing, and two dates.
FlValidates(raw) ==
    /\ raw.totalPriceForGroup.given => raw.totalPriceForGroup.numeric
    /\ raw.departureDate # <<>>
    /\ raw.returnDate # <<>>

\* The price of a raw package, 0 when it gives none.
FlPrice(raw) ==
    IF raw.totalPriceForGroup.given THEN raw.totalPriceForGroup.cents ELSE 0

\* The positions of the raw packages that validate and are within budget.
FlKept == {i \in 1..Len(fl_packages) :
              FlValidates(fl_packages[i]) /\ FlPrice(fl_packages[i]) <= fl_budget}

\* C14: filter_packages returns, in input order, exactly the packages that
\* validate and whose price is at most the budget; an invalid package is
\* skipped and the packages after it are still filtered.
C14_BudgetFilter ==
    fl_pc = "done" =>
        /\ Len(fl_output[1]) = Cardinality(FlKept)
        /\ \A k \in 1..Len(fl_output[1]) :
              \E i \in FlKept :
                  /\ Cardinality({j \in FlKept : j < i}) = k - 1
                  /\ fl_output[1][k].price = <<FlPrice(fl_packages[i])>>
                  /\ fl_output[1][k].hotel_name \in
                         {fl_packages[i].name, <<"Unknown Hotel">>}
                  /\ fl_output[1][k].dates[1].departure =
                         fl_packages[i].departureDate[1]
                  /\ fl_output[1][k].dates[1].return =
                         fl_packages[i].returnDate[1]

\* A package at the ceiling is kept, one a cent above is dropped, and a
\* package after an invalid one is kept.
C14_Witness ==
    /\ fl_pc = "done"
    /\ \E i \in FlKept : FlPrice(fl_packages[i]) = fl_budget
    /\ \E i \in 1..Len(fl_packages) :
          /\ FlValidates(fl_packages[i])
          /\ FlPrice(fl_packages[i]) = fl_budget + 1
    /\ \E i \in 1..Len(fl_packages) :
          /\ ~FlValidates(fl_packages[i])
          /\ \E j \in FlKept : j > i
    /\ Len(fl_output[1]) = Cardinality(FlKept)

\* C18: every package filter_packages emits has both dates, and its
\* departure is not after its return.
C18_DatesOrdered ==
    \A k \in 1..Len(fl_filtered) :
        /\ fl_filtered[k].dates # <<>>
        /\ fl_filtered[k].dates[1].departure <= fl_filtered[k].dates[1].return

(***************************************************************************)
(* Properties of the web stage.                                            *)
(***************************************************************************)
\* The id of the hotel at zero-based position n < 1000: "hotel_" and the
\* three decimal digits of n.
WbThreeDigits(n) ==
    <<"hotel_", DigitChar(n \div 100), DigitChar((n \div 10) % 10),
      DigitChar(n % 10)>>

\* C15: the output has one WebHotel per merged hotel, in input order; the
\* hotel at zero-based position i has the id "hotel_" followed by i on three
\* digits, the ids are pairwise distinct, and metadata.total_hotels is the
\* number of hotels.
C15_SequentialIds ==
    wb_pc = "done" =>
        LET hotels == wb_output[1].hotels
        IN  /\ Len(hotels) = Len(wb_merged)
            /\ \A i \in 1..Len(hotels) :
                  /\ hotels[i].name = wb_merged[i].name
                  /\ hotels[i].id = WbThreeDigits(i - 1)
            /\ \A i, j \in 1..Len(hotels) :
                  i # j => hotels[i].id # hotels[j].id
            /\ wb_output[1].metadata.total_hotels = Len(hotels)

C15_Witness ==
    /\ wb_pc = "done"
    /\ Len(wb_output[1].hotels) >= 11
    /\ wb_output[1].hotels[1].id = <<"hotel_", "0", "0", "0">>
    /\ wb_output[1].hotels[11].id = <<"hotel_", "0", "1", "0">>
    /\ wb_output[1].hotels[1].name # wb_output[1].hotels[11].name

\* C16: for every emitted package whose return is not before its departure,
\* duration_days is the number of whole days from the departure to the
\* return timestamp, whatever the form in which the dates arrive.
C16_DurationDays ==
    \A i \in 1..Len(wb_hotels) :
        \A k \in 1..Len(wb_hotels[i].packages) :
            LET p == wb_hotels[i].packages[k]
                q == wb_merged[i].packages[p.src]
                hours == q.return.ts - q.departure.ts
            IN  /\ q.departure.form \in {"iso", "isoZ", "datetime"}
                /\ q.return.form \in {"iso", "isoZ", "datetime"}
                /\ hours >= 0 =>
                      /\ p.duration_days * 24 <= hours
                      /\ hours < (p.duration_days + 1) * 24

\* Feb 15 to Feb 22 as ISO strings, Apr 5 to Apr 12 with a trailing Z and
\* Feb 15 to Feb 22 as datetime objects all give 7.
C16_Witness ==
    /\ wb_pc = "done"
    /\ \E i \in 1..Len(wb_hotels) :
          \E k \in 1..Len(wb_hotels[i].packages) :
              LET p == wb_hotels[i].packages[k]
                  q == wb_merged[i].packages[p.src]
              IN  /\ q.departure = DateValue("iso", 0)
                  /\ q.return = DateValue("iso", 168)
                  /\ p.duration_days = 7
    /\ \E i \in 1..Len(wb_hotels) :
          \E k \in 1..Len(wb_hotels[i].packages) :
              LET p == wb_hotels[i].packages[k]
                  q == wb_merged[i].packages[p.src]
              IN  /\ q.departure = DateValue("isoZ", 1176)
                  /\ q.return = DateValue("isoZ", 1344)
                  /\ p.duration_days = 7
    /\ \E i \in 1..Len(wb_hotels) :
          \E k \in 1..Len(wb_hotels[i].packages) :
              LET p == wb_hotels[i].packages[k]
                  q == wb_merged[i].packages[p.src]
              IN  /\ q.departure.form = "datetime"
                  /\ p.duration_days = 7

(***************************************************************************)
(* Further properties of the scrape stage.                                 *)
(***************************************************************************)
\* The kinds of step that belong to the extraction of reviews.
ReviewStepKinds == {"click_reviews", "click_place", "scroll", "read_node"}

\* C17: with max_reviews = 0 a call of scrape_hotel performs no step of the
\* review extraction and returns an empty reviews list, and its rating and
\* review_count are those it returns for the same page with max_reviews > 0.
C17_NoReviewExtraction ==
    (ScRealReturned /\ sc_max_reviews = 0) =>
        /\ sc_steps \cap ReviewStepKinds = {}
        /\ ScLast.reviews = <<>>
        /\ \A m \in 1..MaxReviews :
              LET r == scrape_hotel(ScLast.hotel_name, sc_page, m).value
              IN  /\ ScLast.rating = r.rating
                  /\ ScLast.review_count = r.review_count

\* A page with a rating, a count, a Reviews tab and a review node, scraped
\* with max_reviews = 0.
C17_Witness ==
    /\ ScRealReturned
    /\ sc_max_reviews = 0
    /\ sc_page.load = "ok"
    /\ sc_page.tab = "clicked"
    /\ sc_page.nodes # <<>>
    /\ sc_steps = {"goto", "read_rating", "read_count"}
    /\ ScLast.rating = <<45>>
    /\ ScLast.review_count = <<1234>>
    /\ ScLast.reviews = <<>>
    /\ scrape_hotel(ScLast.hotel_name, sc_page, 1).value.reviews # <<>>

\* C19: the browser is open as long as the batch loop runs and released
\* once the batch is left, by browser.close() after the last hotel or by the
\* exit of the with block on an early abort; once released it is not
\* released again and no hotel is scraped any more.
C19_BrowserReleased ==
    /\ [](/\ sc_pc = "loop" => sc_browser = "open"
          /\ sc_pc \in {"saved", "aborted"} =>
                sc_browser \in {"closed", "stopped"}
          /\ sc_browser = "closed" => sc_i > Len(sc_hotels))
    /\ [][(sc_browser # "open") =>
             (sc_browser' = sc_browser /\ sc_calls' = sc_calls)]_vars

\* The handler of a failed hotel throws while a later hotel remains.
C19_Witness ==
    /\ sc_pc = "aborted"
    /\ sc_browser = "stopped"
    /\ sc_i < Len(sc_hotels)
    /\ sc_output = <<>>

(***************************************************************************)
(* Further properties of the web stage.                                    *)
(***************************************************************************)
\* A package of final_data.json whose two dates can be read and subtracted:
\* each is a datetime object or an ISO-8601 string, and both carry an offset
\* or neither does.
WbReshapes(q) ==
    /\ q.departure.form \in {"iso", "isoZ", "datetime"}
    /\ q.return.form \in {"iso", "isoZ", "datetime"}
    /\ (q.departure.form = "isoZ") <=> (q.return.form = "isoZ")

\* The positions of the packages of a hotel that reshape, in order.
WbReshaped(packages) ==
    LET F[j \in 0..Len(packages)] ==
            IF j = 0 THEN <<>>
            ELSE IF WbReshapes(packages[j]) THEN Append(F[j - 1], j)
            ELSE F[j - 1]
    IN  F[Len(packages)]

\* C21: a package that fails to reshape is skipped without aborting the
\* transformation: every merged hotel is emitted, the packages emitted for a
\* hotel are exactly its packages that reshape, in order, and package_count
\* is the number of packages emitted.
C21_PackageSkipped ==
    wb_pc = "done" =>
        LET hotels == wb_output[1].hotels
        IN  /\ Len(hotels) = Len(wb_merged)
            /\ \A i \in 1..Len(hotels) :
                  /\ hotels[i].name = wb_merged[i].name
                  /\ [k \in 1..Len(hotels[i].packages) |->
                          hotels[i].packages[k].src]
                        = WbReshaped(wb_merged[i].packages)
                  /\ hotels[i].package_count = Len(hotels[i].packages)

\* A hotel with one package skipped and one emitted, followed by a hotel
\* that keeps all its packages.
C21_Witness ==
    /\ wb_pc = "done"
    /\ Len(wb_output[1].hotels) >= 2
    /\ Len(wb_merged[1].packages) = 2
    /\ wb_output[1].hotels[1].package_count = 1
    /\ wb_output[1].hotels[2].package_count = Len(wb_merged[2].packages)
    /\ wb_output[1].hotels[2].package_count >= 1

(***************************************************************************)
(* Properties of scrape_reviews before its extraction loop.                *)
(***************************************************************************)
PnSelectors == Len(review_tab_selectors)

PnNoClickSucceeded == \A k \in 1..Len(pn_clicks) : ~pn_clicks[k].ok

\* C22: the clicks follow the selector list in order, first in the first
\* pass and then in the pass after the fallback; a click that succeeds is
\* the last click made; the fallback is entered at most once and only when
\* every selector of the first pass has failed; when no click has succeeded
\* nothing is scrolled and no review node is read, and the function, once it
\* has returned, has returned the empty list.
C22_SelectorsInOrder ==
    /\ \A k \in 1..Len(pn_clicks) :
          /\ k <= PnSelectors =>
                /\ pn_clicks[k].pass = 1
                /\ pn_clicks[k].sel = review_tab_selectors[k]
          /\ k > PnSelectors =>
                /\ pn_clicks[k].pass = 2
                /\ k <= 2 * PnSelectors
                /\ pn_clicks[k].sel = review_tab_selectors[k - PnSelectors]
          /\ pn_clicks[k].ok => k = Len(pn_clicks)
    /\ pn_fallbacks <= 1
    /\ (pn_fallbacks = 1 \/ pn_pc = "fallback") =>
          /\ Len(pn_clicks) >= PnSelectors
          /\ \A k \in 1..PnSelectors : ~pn_clicks[k].ok
    /\ Len(pn_clicks) > PnSelectors => pn_fallbacks = 1
    /\ PnNoClickSucceeded =>
          /\ pn_scrolls = 0 /\ pn_extra = 0 /\ ~pn_read
          /\ pn_pc \notin {"scroll", "extra", "extract"}
    /\ (pn_pc = "returned" /\ PnNoClickSucceeded) => pn_result = <<<<>>>>

\* Every selector failed in both passes and the empty list was returned.
C22_Witness ==
    /\ pn_pc = "returned"
    /\ Len(pn_clicks) = 2 * PnSelectors
    /\ PnNoClickSucceeded
    /\ pn_fallbacks = 1
    /\ pn_result = <<<<>>>>
    /\ pn_scrolls = 0

C24_TextAtLeastFive ==
    rv_pc = "done" =>
        \A i \in 1..Len(rv_result) : TextLen(rv_result[i].text) >= 5

\* The nodes of the page that the extraction loop visits.
RvVisited == Take(rv_page.nodes, Max(rv_max_reviews * 2, rv_max_reviews + 10))

\* C25: every review returned has a rating in 1..5, and a visited node with
\* a usable text whose star label cannot be parsed yields a review with
\* rating 3 in the list the loop builds.
C25_RatingInRange ==
    rv_pc = "done" =>
        /\ \A i \in 1..Len(rv_result) : rv_result[i].rating \in 1..5
        /\ rv_page.tab \in {"clicked", "fallback"} =>
              \A k \in 1..Len(RvVisited) :
                  (RvVisited[k].stars = "" /\ TextLen(RvVisited[k].text) >= 5)
                      => \E i \in 1..Len(rv_reviews) :
                            /\ rv_reviews[i].text = RvVisited[k].text
                            /\ rv_reviews[i].reviewer_name = RvVisited[k].name
                            /\ rv_reviews[i].rating = 3

\* A node without a star label is returned with rating 3 while a node whose
\* label reads 0 stars is not returned.
C25_Witness ==
    /\ rv_pc = "done"
    /\ \E i \in 1..Len(rv_result) :
          rv_result[i].rating = 3 /\ rv_result[i].text = "Bad food!"
    /\ \E k \in 1..Len(RvVisited) : RvVisited[k] = NodeZero
    /\ \A i \in 1..Len(rv_result) : rv_result[i].reviewer_name # <<"Bob">>

(***************************************************************************)
(* Further properties of the summarizer.                                   *)
(***************************************************************************)
\* The hotels of the requests sent so far.
SmRequested == {sm_requests[k] : k \in 1..Len(sm_requests)}

\* The entries of the output file under the lower-cased name of a hotel.
SmEntriesOfKey(hotel) ==
    {sm_file[k] : k \in {j \in 1..Len(sm_file) :
                            Lower(sm_file[j].hotel_name) = Lower(hotel)}}

\* The summaries of the output file the run found, by lower-cased name.
SmCache == load_existing_summaries(sm_prev)

\* A processed hotel with a cached summary, skipping enabled: no request
\* names the hotel and its output entry carries the cached summary.
SmCachedReused ==
    \A i \in 1..Len(sm_ratings_data) :
        LET h == sm_ratings_data[i].hotel_name
        IN  (h \in sm_done /\ ~sm_force /\ Lower(h) \in DOMAIN SmCache) =>
                /\ h \notin SmRequested
                /\ SmEntriesOfKey(h) # {}
                /\ \A e \in SmEntriesOfKey(h) :
                      e.review_summary = <<SmCache[Lower(h)]>>

\* C26 as stated: a cached summary is reused without a request when skipping
\* is enabled, and under force-regenerate a request is sent for every
\* processed hotel that has at least one review.
C26_AsStated ==
    /\ SmCachedReused
    /\ \A i \in 1..Len(sm_ratings_data) :
          LET h == sm_ratings_data[i].hotel_name
          IN  (h \in sm_done /\ sm_force /\ sm_ratings_data[i].reviews # <<>>)
                  => h \in SmRequested

\* C26: a cached summary is reused without a request when skipping is
\* enabled; under force-regenerate a request is sent for every processed
\* hotel that has at least one review left after the max_reviews_per_hotel
\* cap, cached or not, and none for a hotel the cap leaves without reviews.
C26_CacheAndForce ==
    /\ SmCachedReused
    /\ \A i \in 1..Len(sm_ratings_data) :
          LET h == sm_ratings_data[i].hotel_name
              capped == sm_cap # <<>> /\ sm_cap[1] = 0
          IN  (h \in sm_done /\ sm_force /\ sm_ratings_data[i].reviews # <<>>)
                  => (h \in SmRequested <=> ~capped)

\* Under force-regenerate a hotel with a cached summary and a review has
\* been processed with a request, and its entry carries the new summary.
C26_Witness ==
    /\ sm_force
    /\ \E i \in 1..Len(sm_ratings_data) :
          LET h == sm_ratings_data[i].hotel_name
          IN  /\ h \in sm_done
              /\ Lower(h) \in DOMAIN SmCache
              /\ h \in SmRequested
              /\ \E e \in SmEntriesOfKey(h) :
                    /\ e.review_summary # <<>>
                    /\ e.review_summary[1].overall_summary = "generated"

\* max_new_summaries as the run was given it: what is left of the budget
\* and one for each summary generated so far.
SmBudgetGiven == sm_max_new[1] + Cardinality(sm_new)

\* C27: when max_new_summaries = N is given, the run generates at most N new
\* summaries, and once it has generated N >= 1 of them the loop is left.
C27_NewSummariesCapped ==
    sm_max_new # <<>> =>
        /\ Cardinality(sm_new) <= SmBudgetGiven
        /\ (SmBudgetGiven >= 1 /\ Cardinality(sm_new) = SmBudgetGiven) =>
              sm_pc # "loop"

\* C28: the WebHotel emitted for a merged hotel carries the review_summary
\* of that hotel, and null when the merged hotel has none.
C28_SummaryPassedThrough ==
    \A i \in 1..Len(wb_hotels) :
        wb_hotels[i].review_summary = wb_merged[i].review_summary

(***************************************************************************)
(* Further properties of the merge stage.                                  *)
(***************************************************************************)
\* C29: in the output of merge_data the price_range of a hotel agrees with
\* the packages emitted for it: min is the smallest and max the largest of
\* their prices, and min <= avg <= max.
C29_PriceRangeOfEmitted ==
    mg_pc = "done" =>
        \A k \in 1..Len(mg_output[1]) :
            LET h == mg_output[1][k]
                emitted == 1..Len(h.packages)
                price(i) == h.packages[i].price[1]
            IN  /\ \E i \in emitted : h.price_range.min = price(i)
                /\ \A i \in emitted : h.price_range.min <= price(i)
                /\ \E i \in emitted : h.price_range.max = price(i)
                /\ \A i \in emitted : h.price_range.max >= price(i)
                /\ h.price_range.min * h.price_range.avg.count
                       <= h.price_range.avg.sum
                /\ h.price_range.avg.sum
                       <= h.price_range.max * h.price_range.avg.count

(***************************************************************************)
(* The output file of the summarizer after a save.                         *)
(***************************************************************************)
\* The position of a hotel name in ratings_data, 0 when it is not there.
SmPosition(hotel) ==
    IF \E i \in 1..Len(sm_ratings_data) : sm_ratings_data[i].hotel_name = hotel
    THEN CHOOSE i \in 1..Len(sm_ratings_data) :
             sm_ratings_data[i].hotel_name = hotel
    ELSE 0

\* C30: after every save the output file lists the hotels processed so far
\* in input order, each exactly once, and the hotel_name, rating,
\* review_count and reviews of each entry are those of the input rating
\* with that hotel_name.
C30_SavedInInputOrder ==
    sm_done # {} =>
        /\ \A h \in sm_done :
              Cardinality({k \in 1..Len(sm_file) :
                              sm_file[k].hotel_name = h}) = 1
        /\ \A k \in 1..Len(sm_file) :
              sm_file[k].hotel_name \in sm_done =>
                  LET in == SmInput(sm_file[k].hotel_name)
                  IN  /\ sm_file[k].rating = in.rating
                      /\ sm_file[k].review_count = in.review_count
                      /\ sm_file[k].reviews = in.reviews
        /\ \A k1, k2 \in 1..Len(sm_file) :
              (/\ k1 < k2
               /\ sm_file[k1].hotel_name \in sm_done
               /\ sm_file[k2].hotel_name \in sm_done)
                  => SmPosition(sm_file[k1].hotel_name)
                       < SmPosition(sm_file[k2].hotel_name)

=============================================================================
